---- MODULE Spec2Model ----
(***************************************************************************)
(* Conversation orchestration engine of FWMessaging.AI: the conversation   *)
(* store (memory and JSON implementations), the intake/debounce gate, the  *)
(* booking machine and the message handler.                                *)
(*                                                                         *)
(* Conventions.  A Python None is Null for string-valued fields, NoTs for  *)
(* timestamps and the empty tuple for datetime values.  A datetime is the  *)
(* tuple <<day, hour, minute>>; a timestamp is an integer number of clock  *)
(* ticks.  A message text is one of the sample texts of Texts; the text    *)
(* predicates of message_rules.py, greeting.py, date_parser.py and         *)
(* context_resolver.py are given by the set of sample texts on which the   *)
(* code's predicate is true.                                               *)
(***************************************************************************)
EXTENDS Integers, Sequences, FiniteSets, TLC

VARIABLES
    store,      \* the ConversationStorePort implementation wired by get_conversation_store
    clock,      \* the wall clock (datetime.now), in ticks
    ret,        \* return value of the last store call made by a store-level driver
    marks,      \* store-level drivers: what the driver has called so far
    bk,         \* booking-level driver: the booking state fed back turn after turn
    tasks,      \* message handler: the background tasks running handle()
    observed    \* message handler: what the collaborators and the persisted state have seen

vars == <<store, clock, ret, marks, bk, tasks, observed>>

(***************************************************************************)
(* Bounds of the model and program constants                               *)
(***************************************************************************)
MaxTime == 4            \* the clock runs 0..MaxTime
DayLen == 5             \* ticks per calendar day (86400 s in the program)
TzOffset == 1           \* local time = timestamp + TzOffset (BUSINESS_TIMEZONE)
Cooldown == 3           \* cooldown_seconds passed by handle()
ProcessedCap == 1000    \* JSON store keeps the last 1000 processed ids per thread
MemoryHistoryLimit == 30
JsonHistoryLimit == 50
MaxHistoryLimit == 3    \* history_limit arguments tried in place of the defaults
MaxAppends == 4         \* append_message calls per thread

Threads == {"t1", "t2"}
MsgIds == {"m1", "m2"}
StoreKinds == {"memory", "json"}

Null == "None"
NoTs == -1
NoDt == <<>>

(***************************************************************************)
(* Entities                                                                *)
(***************************************************************************)
BookingState(status, proposed_date, proposed_time, service_key, calendar_event_id, event_id) ==
    [status |-> status,
     proposed_date |-> proposed_date,
     proposed_time |-> proposed_time,
     service_key |-> service_key,
     calendar_event_id |-> calendar_event_id,
     event_id |-> event_id,
     proposed_date_iso |-> NoDt,
     proposed_time_24h |-> NoDt,
     proposed_slot_start_iso |-> NoDt]

DefaultBookingState == BookingState("none", NoDt, NoDt, Null, Null, Null)

SelectionState(status, pending_category, selected_service_key, last_service_mention) ==
    [status |-> status,
     pending_category |-> pending_category,
     selected_service_key |-> selected_service_key,
     last_service_mention |-> last_service_mention]

DefaultSelectionState == SelectionState("none", Null, Null, Null)

DefaultConversationState ==
    [last_intent |-> Null,
     awaiting_booking |-> FALSE,
     last_service |-> Null,
     booking_state |-> DefaultBookingState,
     language |-> Null,
     last_seen_at |-> NoTs,
     last_outbound_at |-> NoTs,
     greeted_at |-> NoTs,
     selection_state |-> DefaultSelectionState]

(***************************************************************************)
(* Calendar days in the configured timezone                                *)
(***************************************************************************)
\* datetime.fromtimestamp(ts, tz).date()
LocalDate(ts) == (ts + TzOffset) \div DayLen

\* now.replace(hour=0, minute=0, second=0, microsecond=0).timestamp()
TodayStartTs(now_ts) == LocalDate(now_ts) * DayLen - TzOffset

(***************************************************************************)
(* JSON store: serialisation of the state of a thread file                 *)
(***************************************************************************)
IsoFormat(dt) == IF dt = NoDt THEN NoDt ELSE <<"iso">> \o dt
FromIsoFormat(s) == IF s = NoDt THEN NoDt ELSE Tail(s)
StrfDate(dt) == IF dt = NoDt THEN NoDt ELSE <<"ymd", dt[1]>>
StrfTime(dt) == IF dt = NoDt THEN NoDt ELSE <<"hm", dt[2], dt[3]>>
Or(a, b) == IF a # Null THEN a ELSE b

_serialize_booking_state(b) ==
    [status |-> b.status,
     service_key |-> b.service_key,
     calendar_event_id |-> b.calendar_event_id,
     event_id |-> b.event_id,
     proposed_date_iso |-> StrfDate(b.proposed_date),
     proposed_time_24h |-> StrfTime(b.proposed_time),
     proposed_slot_start_iso |-> IsoFormat(b.proposed_time),
     proposed_date |-> IsoFormat(b.proposed_date),
     proposed_time |-> IsoFormat(b.proposed_time)]

_deserialize_booking_state(d) ==
    [status |-> d.status,
     proposed_date |-> FromIsoFormat(d.proposed_date),
     proposed_time |-> FromIsoFormat(d.proposed_time),
     service_key |-> d.service_key,
     calendar_event_id |-> Or(d.calendar_event_id, d.event_id),
     event_id |-> Or(d.event_id, d.calendar_event_id),
     proposed_date_iso |-> d.proposed_date_iso,
     proposed_time_24h |-> d.proposed_time_24h,
     proposed_slot_start_iso |-> d.proposed_slot_start_iso]

_serialize_state(st) ==
    [st EXCEPT !.booking_state = _serialize_booking_state(st.booking_state)]

_deserialize_state(d) ==
    [d EXCEPT !.booking_state = _deserialize_booking_state(d.booking_state)]

DefaultThreadData ==
    [exists |-> FALSE,
     corrupt |-> FALSE,        \* the file cannot be opened or decoded
     state |-> _serialize_state(DefaultConversationState),
     messages |-> <<>>,
     processed_message_ids |-> <<>>,
     debounce |-> [last_message_id |-> Null, last_received_at |-> NoTs]]

\* the thread file as _load_thread_data returns it: the defaults when the file is
\* missing, and also when it cannot be opened or decoded
_load_thread_data(s, thread_id) ==
    IF s.files[thread_id].corrupt THEN DefaultThreadData ELSE s.files[thread_id]

\* data_dir / <thread_id>.json.tmp: absent, or holding data that json.dump wrote
\* to the end (complete) or only in part
NoTemp == [exists |-> FALSE, complete |-> FALSE, data |-> DefaultThreadData]

\* _save_thread_data, lines 74-75: open(temp_path, "w") and json.dump
_write_temp(s, thread_id, data, complete) ==
    [s EXCEPT !.temp[thread_id] = [exists |-> TRUE, complete |-> complete, data |-> data]]

\* _save_thread_data, line 77: temp_path.replace(file_path); the thread file is now
\* what the temp file held, undecodable when that was written in part
_replace(s, thread_id) ==
    [s EXCEPT !.files[thread_id] = [s.temp[thread_id].data EXCEPT
                                       !.exists = TRUE,
                                       !.corrupt = ~s.temp[thread_id].complete],
              !.temp[thread_id] = NoTemp]

\* the error handler putting the temp file in place of the thread file
_unlink_temp_replaces(s, thread_id) ==
    IF s.temp[thread_id].exists THEN _replace(s, thread_id) ELSE s

\* _save_thread_data, lines 78-85: the temp file is removed when it exists
_unlink_temp(s, thread_id) == [s EXCEPT !.temp[thread_id] = NoTemp]

\* the temp file is written and renamed over the thread file
_save_thread_data(s, thread_id, data) ==
    _replace(_write_temp(s, thread_id, data, TRUE), thread_id)

\* one Lock shared by every thread id
_get_lock_shared(s, thread_id) == "t1"

\* _get_lock: the key of the Lock of self._locks a call on thread_id takes
_get_lock(s, thread_id) == thread_id

\* seq[-n:]; the slice seq[-0:] is the whole list
LastN(seq, n) ==
    IF n > 0 /\ Len(seq) > n THEN SubSeq(seq, Len(seq) - n + 1, Len(seq)) ELSE seq

InSeq(x, seq) == \E i \in 1..Len(seq) : seq[i] = x

(***************************************************************************)
(* The store.  Fields of MemoryConversationStore and the thread files of   *)
(* JsonConversationStore; the kind says which implementation is wired.     *)
(***************************************************************************)
NewStore(kind) ==
    [kind |-> kind,
     history_limit |-> IF kind = "memory" THEN MemoryHistoryLimit ELSE JsonHistoryLimit,
     \* MemoryConversationStore
     threads |-> [t \in Threads |-> <<>>],
     processed |-> {},
     states |-> [t \in Threads |-> DefaultConversationState],
     last_outbound_ts |-> [t \in Threads |-> NoTs],
     last_greeted_at |-> [t \in Threads |-> NoTs],
     last_received_message_at |-> [t \in Threads |-> NoTs],
     pending_message_id |-> [t \in Threads |-> Null],
     \* JsonConversationStore: data_dir / <thread_id>.json
     files |-> [t \in Threads |-> DefaultThreadData],
     temp |-> [t \in Threads |-> NoTemp],
     locks |-> {},                          \* keys of self._locks
     lock_lock |-> 0,                       \* the task holding self._lock_lock, 0 for none
     owner |-> [t \in Threads |-> 0]]       \* the task holding the Lock of a key, 0 for none

get_history(s, thread_id) ==
    IF s.kind = "memory" THEN s.threads[thread_id]
    ELSE _load_thread_data(s, thread_id).messages

get_recent_messages(s, thread_id) == LastN(get_history(s, thread_id), 10)

\* append_message keeping every entry
append_message_uncapped(s, thread_id, entry) ==
    IF s.kind = "memory"
    THEN [s EXCEPT !.threads[thread_id] = Append(@, entry)]
    ELSE LET data == _load_thread_data(s, thread_id)
         IN _save_thread_data(s, thread_id, [data EXCEPT !.messages = Append(@, entry)])

append_message(s, thread_id, entry) ==
    IF s.kind = "memory"
    THEN [s EXCEPT !.threads[thread_id] = LastN(Append(@, entry), s.history_limit)]
    ELSE LET data == _load_thread_data(s, thread_id)
             messages == LastN(Append(data.messages, entry), s.history_limit)
         IN _save_thread_data(s, thread_id, [data EXCEPT !.messages = messages])

\* has_processed relying on the ids given to mark_processed alone
has_processed_marked_only(s, message_id) == message_id \in s.processed

has_processed(s, message_id) ==
    IF s.kind = "memory" THEN message_id \in s.processed
    ELSE \E t \in Threads :
            /\ s.files[t].exists
            \* an unreadable file is skipped
            /\ ~s.files[t].corrupt
            /\ InSeq(message_id, s.files[t].processed_message_ids)

mark_processed(s, message_id) ==
    IF s.kind = "memory" THEN [s EXCEPT !.processed = @ \cup {message_id}]
    ELSE s

get_state(s, thread_id) ==
    IF s.kind = "memory" THEN s.states[thread_id]
    ELSE _deserialize_state(_load_thread_data(s, thread_id).state)

set_state(s, thread_id, state) ==
    IF s.kind = "memory" THEN [s EXCEPT !.states[thread_id] = state]
    ELSE LET data == _load_thread_data(s, thread_id)
         IN _save_thread_data(s, thread_id, [data EXCEPT !.state = _serialize_state(state)])

mark_outbound(s, thread_id, timestamp) ==
    IF s.kind = "memory" THEN [s EXCEPT !.last_outbound_ts[thread_id] = timestamp]
    ELSE set_state(s, thread_id, [get_state(s, thread_id) EXCEPT !.last_outbound_at = timestamp])

\* should_greet_today with the calendar day taken in UTC instead of the configured zone
should_greet_today_utc(s, thread_id, now_ts) ==
    LET last_greeted_ts == IF s.kind = "memory" THEN s.last_greeted_at[thread_id]
                           ELSE get_state(s, thread_id).greeted_at
    IN IF last_greeted_ts = NoTs THEN TRUE
       ELSE (last_greeted_ts \div DayLen) # (now_ts \div DayLen)

should_greet_today(s, thread_id, now_ts) ==
    IF s.kind = "memory"
    THEN LET last_greeted_ts == s.last_greeted_at[thread_id]
         IN IF last_greeted_ts = NoTs THEN TRUE
            ELSE LocalDate(last_greeted_ts) # LocalDate(now_ts)
    ELSE LET greeted_at == get_state(s, thread_id).greeted_at
         IN IF greeted_at = NoTs THEN TRUE
            ELSE greeted_at < TodayStartTs(now_ts)

mark_greeted(s, thread_id, timestamp) ==
    IF s.kind = "memory" THEN [s EXCEPT !.last_greeted_at[thread_id] = timestamp]
    ELSE set_state(s, thread_id, [get_state(s, thread_id) EXCEPT !.greeted_at = timestamp])

\* should_process_message with the cooldown comparison made inclusive
should_process_message_inclusive(s, thread_id, message_id, cooldown_seconds, now_ts) ==
    LET last_received_ts ==
            IF s.kind = "memory" THEN s.last_received_message_at[thread_id]
            ELSE _load_thread_data(s, thread_id).debounce.last_received_at
        pending_id ==
            IF s.kind = "memory" THEN s.pending_message_id[thread_id]
            ELSE _load_thread_data(s, thread_id).debounce.last_message_id
    IN IF last_received_ts = NoTs THEN <<TRUE, Null>>
       ELSE IF now_ts - last_received_ts <= cooldown_seconds THEN <<FALSE, pending_id>>
       ELSE <<TRUE, Null>>

\* should_process_message letting every message through
should_process_message_always(s, thread_id, message_id, cooldown_seconds, now_ts) ==
    <<TRUE, Null>>

\* returns <<should_process, previous_message_id_if_coalesced>>
should_process_message(s, thread_id, message_id, cooldown_seconds, now_ts) ==
    LET last_received_ts ==
            IF s.kind = "memory" THEN s.last_received_message_at[thread_id]
            ELSE _load_thread_data(s, thread_id).debounce.last_received_at
        pending_id ==
            IF s.kind = "memory" THEN s.pending_message_id[thread_id]
            ELSE _load_thread_data(s, thread_id).debounce.last_message_id
    IN IF last_received_ts = NoTs THEN <<TRUE, Null>>
       ELSE IF now_ts - last_received_ts < cooldown_seconds THEN <<FALSE, pending_id>>
       ELSE <<TRUE, Null>>

mark_message_received(s, thread_id, message_id, timestamp) ==
    IF s.kind = "memory"
    THEN [s EXCEPT !.last_received_message_at[thread_id] = timestamp,
                   !.pending_message_id[thread_id] = message_id]
    ELSE LET data == _load_thread_data(s, thread_id)
             processed == IF InSeq(message_id, data.processed_message_ids)
                          THEN data.processed_message_ids
                          ELSE LastN(Append(data.processed_message_ids, message_id), ProcessedCap)
         IN _save_thread_data(s, thread_id,
                [data EXCEPT !.debounce = [last_message_id |-> message_id,
                                           last_received_at |-> timestamp],
                             !.processed_message_ids = processed])

(***************************************************************************)
(* Sample message texts and the text predicates of the code on them        *)
(***************************************************************************)
T_PRICE == "how much is full body laser hair removal"
T_BOOK == "i want to book full body laser hair removal please"
T_DATE == "tomorrow works best for me thanks"
T_TIME == "2pm"
T_YES == "yes"
T_CANCEL == "cancel"
T_DURATION == "how long is full body laser hair removal"
\* texts naming a category and no service of the registry
T_LASER == "do you do laser"
T_BROWS == "do you do brows"

Texts == {T_PRICE, T_BOOK, T_DATE, T_TIME, T_YES, T_CANCEL, T_DURATION}

SERVICE == "laser_hair_removal_full_body"

\* KnowledgeBasePort.resolve_service_to_registry_key
resolve_service_to_registry_key(text) == IF text \in {T_PRICE, T_BOOK, T_DURATION} THEN SERVICE ELSE Null

\* parse_date_preference: a date (day number) or none; "tomorrow" is the day after today
parse_date_preference(text, today) == IF text = T_DATE THEN <<today + 1>> ELSE <<>>

\* parse_time_preference: <<hour, minute>> or none
parse_time_preference(text) == IF text = T_TIME THEN <<14, 0>> ELSE <<>>

\* map_vague_time_to_range: <<start_hour, end_hour>> or none (the whole text must be
\* "morning", "afternoon", ...)
map_vague_time_to_range(text) == <<>>

\* BookingUseCase._is_confirmation: a confirmation word is a substring of the text
\* ("ok" is a substring of "book")
_is_confirmation(text) == text \in {T_YES, T_BOOK}

(***************************************************************************)
(* Calendar collaborator.  What the calendar answers in one turn is an     *)
(* input: how many slots find_available_slots returns, what                *)
(* check_availability says, and whether create_event returns an id.        *)
(***************************************************************************)
MaxSlots == 3
MaxTurns == 4
BufferMinutes == 15
DefaultDuration == 60
SlotStep == 30

CalendarAnswers ==
    [slots : 0..MaxSlots, available : BOOLEAN, event_id : {"evt_1", "raise"}]

AddMinutes(dt, n) ==
    LET total == dt[2] * 60 + dt[3] + n
    IN <<dt[1] + total \div 1440, (total % 1440) \div 60, total % 60>>

\* the i-th slot of the grid MockCalendar.find_available_slots walks from start_hour
SlotAt(day, start_hour, i) == AddMinutes(<<day, start_hour, 0>>, SlotStep * (i - 1))

\* the list find_available_slots returns when the calendar has n free slots
find_available_slots(cal, day, start_hour) ==
    [i \in 1..cal.slots |-> SlotAt(day, start_hour, i)]

FirstTwo(slots) == IF Len(slots) > 2 THEN SubSeq(slots, 1, 2) ELSE slots

\* BookingUseCase._get_service_duration: 60 without a service, else the catalog's
\* get_duration_minutes, which answers 60 for a key it holds no entry for
_get_service_duration(service) == DefaultDuration

(***************************************************************************)
(* Booking machine.  A BookingResult carries the action tag, the proposed  *)
(* slots, the updated state and the calendar calls made; raised is TRUE    *)
(* when process_booking_intent ends by raising instead of returning.       *)
(***************************************************************************)
BookingResult(action, proposed_slots, updated_state, calls) ==
    [raised |-> FALSE, action |-> action, proposed_slots |-> proposed_slots,
     updated_state |-> updated_state, calls |-> calls]

\* TypeError of a BookingState(...) call with a keyword that is no field
BookingRaised(current_state, calls) ==
    [raised |-> TRUE, action |-> "raised", proposed_slots |-> <<>>,
     updated_state |-> current_state, calls |-> calls]

\* the flow asking for the service again whatever was resolved
_start_booking_flow_asks_service(service) ==
    [raised |-> FALSE, action |-> "ask_service", proposed_slots |-> <<>>,
     updated_state |-> BookingState("collecting_service", NoDt, NoDt, Null, Null, Null),
     calls |-> <<>>]

_start_booking_flow(service) ==
    BookingResult("ask_date", <<>>,
                  BookingState("collecting_date", NoDt, NoDt, service, Null, Null), <<>>)

_process_date_input(message_text, current_state, service, today, cal) ==
    LET parsed_date == parse_date_preference(message_text, today)
    IN IF parsed_date = <<>>
       THEN BookingResult("ask_date", <<>>, current_state, <<>>)
       ELSE LET duration == _get_service_duration(service)
                slots == find_available_slots(cal, parsed_date[1], 9)
                calls == << <<"find_available_slots", parsed_date[1], duration, 9, 17>> >>
                proposed_date == <<parsed_date[1], 0, 0>>
            IN IF Len(slots) = 0
               THEN BookingResult("ask_date", <<>>, current_state, calls)
               ELSE IF Len(slots) >= 2
               THEN BookingResult("suggest_slots", FirstTwo(slots),
                        BookingState("collecting_time", proposed_date, NoDt, service, Null, Null),
                        calls)
               \* BookingState(status=..., proposed_date=..., service=service): no such field
               ELSE BookingRaised(current_state, calls)

\* the time step taking the requested time without asking the calendar
_process_time_input_unchecked(message_text, current_state, service, cal) ==
    LET parsed_time == parse_time_preference(message_text)
        proposed_datetime == <<current_state.proposed_date[1], parsed_time[1], parsed_time[2]>>
    IN IF current_state.proposed_date = NoDt \/ parsed_time = <<>>
       THEN BookingResult("ask_time", <<>>, current_state, <<>>)
       ELSE BookingResult("confirm", <<proposed_datetime>>,
                BookingState("confirming", current_state.proposed_date, proposed_datetime,
                             service, Null, Null),
                <<>>)

_process_time_input(message_text, current_state, service, cal) ==
    IF current_state.proposed_date = NoDt
    THEN _start_booking_flow(service)
    ELSE
    LET parsed_time == parse_time_preference(message_text)
        vague_range == map_vague_time_to_range(message_text)
        day == current_state.proposed_date[1]
        duration == _get_service_duration(service)
        proposed_datetime == <<day, parsed_time[1], parsed_time[2]>>
        end_datetime == AddMinutes(proposed_datetime, duration + BufferMinutes)
        check == << <<"check_availability", proposed_datetime, end_datetime>> >>
        near == find_available_slots(cal, day, parsed_time[1] - 1)
        nearCall == << <<"find_available_slots", day, duration,
                         parsed_time[1] - 1, parsed_time[1] + 2>> >>
        vague == find_available_slots(cal, day, vague_range[1])
        vagueCall == << <<"find_available_slots", day, duration,
                          vague_range[1], vague_range[2]>> >>
        afterTime == IF parsed_time = <<>> THEN <<>> ELSE check \o nearCall
    IN IF parsed_time # <<>> /\ cal.available
       THEN BookingResult("confirm", <<proposed_datetime>>,
                BookingState("confirming", current_state.proposed_date, proposed_datetime,
                             service, Null, Null),
                check)
       ELSE IF parsed_time # <<>> /\ Len(near) > 0
       THEN BookingResult("suggest_slots", FirstTwo(near), current_state, afterTime)
       ELSE IF vague_range # <<>> /\ Len(vague) > 0
       THEN BookingResult("suggest_slots", FirstTwo(vague), current_state,
                          afterTime \o vagueCall)
       ELSE BookingResult("ask_time", <<>>, current_state,
                          afterTime \o (IF vague_range = <<>> THEN <<>> ELSE vagueCall))

\* the confirmation step with create_event called outside any try
_confirm_booking_uncaught(current_state, service, cal) ==
    LET end_time == AddMinutes(current_state.proposed_time,
                               _get_service_duration(service) + BufferMinutes)
        calls == << <<"create_event", current_state.proposed_time, end_time>> >>
    IN IF current_state.proposed_time = NoDt
       THEN BookingResult("reset", <<>>, DefaultBookingState, <<>>)
       ELSE IF cal.event_id = "raise"
       THEN BookingRaised(current_state, calls)
       ELSE BookingResult("booked", <<>>,
                BookingState("confirmed", current_state.proposed_date,
                             current_state.proposed_time, service,
                             cal.event_id, cal.event_id),
                calls)

_confirm_booking(current_state, service, cal) ==
    IF current_state.proposed_time = NoDt
    THEN BookingResult("reset", <<>>, DefaultBookingState, <<>>)
    ELSE LET duration == _get_service_duration(service)
             end_time == AddMinutes(current_state.proposed_time, duration + BufferMinutes)
             calls == << <<"create_event", current_state.proposed_time, end_time>> >>
         IN IF cal.event_id # "raise"
            THEN BookingResult("booked", <<>>,
                     BookingState("confirmed", current_state.proposed_date,
                                  current_state.proposed_time, service,
                                  cal.event_id, cal.event_id),
                     calls)
            ELSE BookingResult("unavailable", <<>>, current_state, calls)

\* the machine treating status confirmed like confirming: an affirmation books again
process_booking_intent_rebooks(message_text, current_state, service, conversation_state, today, cal) ==
    LET resolved_service ==
            Or(service, Or(current_state.service_key,
                           Or(conversation_state.last_service,
                              conversation_state.selection_state.selected_service_key)))
    IN CASE current_state.status \in {"none", "collecting_service"} ->
                IF resolved_service = Null
                THEN BookingResult("ask_service", <<>>,
                         BookingState("collecting_service", NoDt, NoDt, Null, Null, Null), <<>>)
                ELSE _start_booking_flow(resolved_service)
         [] current_state.status = "collecting_date" ->
                _process_date_input(message_text, current_state, resolved_service, today, cal)
         [] current_state.status = "collecting_time" ->
                _process_time_input(message_text, current_state, resolved_service, cal)
         [] current_state.status \in {"confirming", "confirmed"} ->
                IF _is_confirmation(message_text)
                THEN _confirm_booking(current_state, resolved_service, cal)
                ELSE BookingResult("confirm", <<>>, current_state, <<>>)
         [] OTHER -> BookingResult("reset", <<>>, DefaultBookingState, <<>>)

process_booking_intent(message_text, current_state, service, conversation_state, today, cal) ==
    LET resolved_service ==
            Or(service, Or(current_state.service_key,
                           Or(conversation_state.last_service,
                              conversation_state.selection_state.selected_service_key)))
    IN CASE current_state.status = "none" ->
                IF resolved_service = Null
                THEN BookingResult("ask_service", <<>>,
                         BookingState("collecting_service", NoDt, NoDt, Null, Null, Null), <<>>)
                ELSE _start_booking_flow(resolved_service)
         [] current_state.status = "collecting_service" ->
                IF resolved_service = Null
                THEN BookingResult("ask_service", <<>>, current_state, <<>>)
                ELSE _start_booking_flow(resolved_service)
         [] current_state.status = "collecting_date" ->
                _process_date_input(message_text, current_state, resolved_service, today, cal)
         [] current_state.status = "collecting_time" ->
                _process_time_input(message_text, current_state, resolved_service, cal)
         [] current_state.status = "confirming" ->
                IF _is_confirmation(message_text)
                THEN _confirm_booking(current_state, resolved_service, cal)
                ELSE BookingResult("confirm",
                         IF current_state.proposed_time # NoDt
                         THEN <<current_state.proposed_time>> ELSE <<>>,
                         current_state, <<>>)
         [] OTHER -> BookingResult("reset", <<>>, DefaultBookingState, <<>>)

(***************************************************************************)
(* Initial values of the drivers' variables                                *)
(***************************************************************************)
\* the scripted dialogue of test_booking_flow and of the booking example
Script == <<T_BOOK, T_DATE, T_TIME, T_YES>>

NoBooking ==
    [state |-> DefaultBookingState,
     last_service |-> Null,     \* conversation_state.last_service passed along
     turns |-> 0,
     on_script |-> TRUE,        \* every turn so far followed Script with an available calendar
     actions |-> <<>>,          \* the action tags returned while on the script
     statuses |-> <<>>,         \* the booking statuses reached while on the script
     last |-> BookingResult("none", <<>>, DefaultBookingState, <<>>)]

NoRet == [op |-> "none", thread |-> Null, id |-> Null, now |-> NoTs, value |-> <<>>]

NoMarks ==
    [processed |-> {},                          \* ids passed to mark_processed
     received |-> [t \in Threads |-> <<>>],     \* last <<id, timestamp>> passed to mark_message_received
     greeted |-> [t \in Threads |-> NoTs],      \* last timestamp passed to mark_greeted
     appended |-> [t \in Threads |-> <<>>]]     \* entries passed to append_message, in call order

(***************************************************************************)
(* Message handler: text predicates and context resolution                 *)
(***************************************************************************)
\* the texts delivered to handle()
HandlerTexts == {T_PRICE, T_BOOK, T_DATE, T_CANCEL, T_DURATION}

\* cancel_keywords of handle(): a keyword is a substring of the text
has_cancel_keyword(text) == text = T_CANCEL

is_booking_request(text) == text = T_BOOK
contains_date_or_time(text) == text \in {T_DATE, T_TIME}
is_informational_question(text) == text \in {}
asks_about_results(text) == text \in {}
has_explicit_price_intent(text) == text = T_PRICE
asks_about_duration(text) == text = T_DURATION
mentions_availability(text) == text \in {}

\* greeting.is_follow_up: the whole text is an acknowledgement
is_follow_up(text) == text = T_YES

\* the Spanish indicators of resolve_context occur in none of the sample texts
detect_language(text) == "en"

HistoryEntry(role, text, message_id) ==
    [role |-> role, text |-> text, message_id |-> message_id]

_detect_follow_up(user_text, recent_messages, state) ==
    \/ user_text \in {T_PRICE, T_DURATION}             \* "how much", "how long"
    \/ /\ \E i \in 1..Len(recent_messages) : recent_messages[i].role = "assistant"
       /\ user_text \in {T_PRICE, T_BOOK, T_DURATION, T_LASER}  \* "it", "lo", "la" as substrings
    \/ /\ \/ state.last_intent # Null
          \/ state.last_service # Null
          \/ state.booking_state.status # "none"
       /\ user_text \in {T_TIME, T_YES, T_CANCEL, T_LASER, T_BROWS}  \* at most five words

resolve_context(user_text, recent_messages, state) ==
    LET service_from_text == resolve_service_to_registry_key(user_text)
    IN [resolved_language |-> IF state.language # Null THEN state.language
                              ELSE detect_language(user_text),
        resolved_service_key |->
            IF service_from_text # Null THEN service_from_text
            ELSE Or(state.last_service,
                    Or(state.booking_state.service_key,
                       state.selection_state.selected_service_key)),
        is_booking_request |-> is_booking_request(user_text),
        is_duration_question |-> asks_about_duration(user_text),
        is_price_question |-> has_explicit_price_intent(user_text),
        is_follow_up |-> _detect_follow_up(user_text, recent_messages, state)]

\* reset_booking_state that clears the awaiting flag and keeps the booking state
reset_booking_state_flag_only(state) == [state EXCEPT !.awaiting_booking = FALSE]

reset_booking_state(state) ==
    [state EXCEPT !.awaiting_booking = FALSE, !.booking_state = DefaultBookingState]

SelectionTexts == Texts \cup {T_LASER, T_BROWS}

\* SelectionUseCase._detect_category: the first category one of whose keywords is a
\* substring of the text
_detect_category(normalized_text) ==
    CASE normalized_text \in {T_PRICE, T_BOOK, T_DURATION, T_LASER} -> "laser"
      [] normalized_text = T_BROWS -> "brows"
      [] OTHER -> Null

\* StructuredKnowledgeBase.is_ambiguous_category_question: "laser" without a body
\* area ("full body", "face", ...) names the category, anything else none
is_ambiguous_category_question(text) == IF text = T_LASER THEN "laser" ELSE Null

SelectionResult(updated_state, service_key, category, needs_clarification) ==
    [updated_state |-> updated_state, service_key |-> service_key,
     category |-> category, needs_clarification |-> needs_clarification]

\* process_selection_intent that never looks for a category
process_selection_intent_service_only(message_text, current_state) ==
    LET resolved_service == resolve_service_to_registry_key(message_text)
    IN IF current_state.status = "service_selected" /\ current_state.selected_service_key # Null
       THEN SelectionResult(current_state, current_state.selected_service_key, Null, FALSE)
       ELSE IF resolved_service # Null
       THEN SelectionResult(SelectionState("service_selected", Null, resolved_service,
                                           message_text),
                            resolved_service, Null, FALSE)
       ELSE SelectionResult(current_state, Null, Null, FALSE)

\* SelectionUseCase.process_selection_intent
process_selection_intent(message_text, current_state) ==
    LET resolved_service == resolve_service_to_registry_key(message_text)
        category == _detect_category(message_text)
        ambiguous == is_ambiguous_category_question(message_text)
    IN IF current_state.status = "service_selected" /\ current_state.selected_service_key # Null
       THEN SelectionResult(current_state, current_state.selected_service_key, Null, FALSE)
       ELSE IF resolved_service # Null
       THEN SelectionResult(SelectionState("service_selected", Null, resolved_service,
                                           message_text),
                            resolved_service, Null, FALSE)
       ELSE IF category # Null
       THEN SelectionResult(SelectionState("awaiting_service_choice", category, Null,
                                           message_text),
                            Null, category, ambiguous # Null)
       ELSE SelectionResult(current_state, Null, Null, FALSE)

ALLOWED_INTENTS ==
    {"services_list", "pricing", "promo_pricing", "service_details", "location", "hours",
     "availability", "booking", "equipment", "eligibility", "closing", "out_of_scope"}

\* the reason of the handoff, or Null for no handoff
evaluate_outside_business(intent, template) ==
    IF intent \notin ALLOWED_INTENTS THEN "unknown_intent"
    ELSE IF intent = "out_of_scope" THEN "out_of_scope"
    ELSE IF ~template THEN "missing_kb"
    ELSE Null

\* what the intent classifier may answer on a text
Intents(text) ==
    CASE text = T_PRICE -> {"pricing"}
      [] text = T_DURATION -> {"service_details", "smalltalk"}
      [] text = T_BOOK -> {"booking", "pricing"}
      [] text = T_CANCEL -> {"smalltalk", "booking"}
      [] text = T_LASER -> {"services_list", "smalltalk"}
      [] OTHER -> {"smalltalk"}

(***************************************************************************)
(* Message handler: HandleIncomingMessageUseCase.handle, one process per   *)
(* background task of the webhook.  A task runs handle() for one message;  *)
(* every store call and every call of a collaborator is one step.          *)
(***************************************************************************)
Tasks == {1, 2}

\* message ids in the order the platform issues them
MsgOrder == <<"m1", "m2">>

\* the toggle read as on whatever the deployment says
AUTO_REPLY_ENABLED_on == TRUE

\* settings.AUTO_REPLY_ENABLED of the deployment, read once when the use cases are wired
AUTO_REPLY_ENABLED == observed.auto_reply

NoContext ==
    [resolved_language |-> Null, resolved_service_key |-> Null, is_booking_request |-> FALSE,
     is_duration_question |-> FALSE, is_price_question |-> FALSE, is_follow_up |-> FALSE]

IdleTask ==
    [pc |-> "idle",
     id |-> Null, thread_id |-> Null, text |-> Null,     \* message
     now_ts |-> NoTs,
     state |-> DefaultConversationState,                 \* the local variable state
     context |-> NoContext,
     booking_result |-> Null,                            \* action tag of the BookingResult
     intent |-> Null, class_service |-> Null,            \* classification
     should_enter_booking_flow |-> FALSE,
     greeting_applicable |-> FALSE,
     \* what the turn did
     gate |-> "none",               \* duplicate, coalesced, passed
     calls |-> <<>>,                \* the store calls of the intake gate, in order
     overlapped |-> FALSE,          \* another handle() was running when this one began
     greeted_reply |-> FALSE,       \* the reply was composed with greeting_applicable
     loaded_status |-> Null,        \* booking status of the state loaded at line 104
     invoked |-> {},                \* collaborators called: classifier, booking, selection
     machine_inputs |-> <<>>,       \* booking statuses the booking machine was called on
     changed |-> {},                \* sub-flow states the turn replaced by a different value
     final_intent |-> Null,         \* classification.intent after the last override
     template |-> Null,             \* get_template: found, missing or raised
     appended |-> <<>>,             \* roles of the history entries the turn appended
     sent |-> 0,                    \* platform sends of the turn
     outbound |-> FALSE,            \* mark_outbound was called
     failure |-> "none",            \* the collaborator whose call raised
     sent_after_failure |-> FALSE,
     unreadable |-> FALSE,          \* a thread file was unreadable at the intake gate
     should_handoff |-> FALSE,      \* reply generation answered should_handoff
     greet_checks |-> 0,            \* should_greet_today calls of the turn
     greet_marks |-> 0,             \* mark_greeted calls of the turn
     composed_with |-> "none",      \* greeting_applicable given to reply generation
     exit |-> "none"]               \* the return statement (or handler) that ended the turn

NoObserved ==
    [auto_reply |-> TRUE,                               \* settings.AUTO_REPLY_ENABLED
     turns |-> 0,                                       \* messages of the dialogue delivered
     sends |-> <<>>,                                    \* platform sends: <<message id, thread>>
     booking_written |-> [t \in Threads |-> <<>>],      \* last booking state a sub-flow persisted
     created |-> <<>>,              \* the create_event calls: what the machine was called on
     confirmations |-> 0]           \* persisted changes of the booking status to confirmed

\* the create_event calls of one process_booking_intent call, each with the status,
\* the proposed time and the text the machine was called on and whether it returned an id
CreateEventCalls(h, res, cal) ==
    LET made == {i \in 1..Len(res.calls) : res.calls[i][1] = "create_event"}
    IN IF made = {} THEN <<>>
       ELSE << [status |-> h.state.booking_state.status,
                proposed_time |-> h.state.booking_state.proposed_time,
                text |-> h.text,
                created |-> cal.event_id # "raise"] >>

\* 1 when persisting the state after moves the booking status to confirmed
EnteredConfirmed(before, after) ==
    IF after.booking_state.status = "confirmed" /\ before.booking_state.status # "confirmed"
    THEN 1 ELSE 0

\* handle() returns: the locals are gone
Return(h) ==
    [h EXCEPT !.pc = "done", !.state = DefaultConversationState, !.context = NoContext,
              !.booking_result = Null, !.intent = Null, !.class_service = Null,
              !.should_enter_booking_flow = FALSE, !.greeting_applicable = FALSE]

InitHandler ==
    /\ store \in {NewStore(k) : k \in StoreKinds}
    /\ clock = 0
    /\ ret = NoRet
    /\ marks = NoMarks
    /\ bk = NoBooking
    /\ tasks = [k \in Tasks |-> IdleTask]
    /\ observed = NoObserved

\* time passes between two turns: the first message arrives at the origin of the clock,
\* and the clock advances while a later task is about to read it and no other handle()
\* is running
TimePasses ==
    /\ clock < MaxTime
    /\ \E k \in Tasks : tasks[k].pc = "should_process"
    /\ \E k \in Tasks : tasks[k].pc = "done"
    /\ \A k \in Tasks : tasks[k].pc \in {"idle", "should_process", "done"}
    /\ clock' = clock + 1
    /\ UNCHANGED <<store, ret, marks, bk, tasks, observed>>

GreetingEligible(h) ==
    h.context.resolved_language \in {"en", "es"} /\ ~h.context.is_follow_up

\* AfterContext sending every turn through the sub-flow routing
AfterContext_always_route(h) == "route"

AfterContext(h) ==
    IF \/ h.state.booking_state.status # "none"
       \/ h.state.selection_state.status = "awaiting_service_choice"
    THEN "route" ELSE "classify"

AfterGreeting(h) ==
    IF h.context.is_duration_question /\ h.context.resolved_service_key # Null
    THEN "duration_reply" ELSE "template"

AfterBooking(h) == IF GreetingEligible(h) THEN "greet" ELSE AfterGreeting(h)

AfterSend(h) ==
    IF h.context.is_booking_request /\ h.intent = "booking"
    THEN "booking_handoff" ELSE "final"

\* the webhook hands a message to a background task, and handle() begins with the
\* idempotency check
\* raised: has_processed raises, which the except at line 868 turns into a return
HandleWith(k, raised) ==
    /\ tasks[k].pc = "idle"
    /\ \A j \in Tasks : j < k => tasks[j].pc # "idle"
    /\ \E id \in MsgIds, t \in Threads, text \in HandlerTexts :
        LET earlier == {j \in Tasks : tasks[j].id = id}
            used == {tasks[j].id : j \in Tasks} \ {Null}
            h == [IdleTask EXCEPT
                    !.id = id, !.thread_id = t, !.text = text,
                    !.calls = <<"has_processed">>,
                    !.overlapped = \E j \in Tasks : tasks[j].pc \notin {"idle", "done"},
                    !.unreadable = /\ store.kind = "json"
                                   /\ \E f \in Threads : store.files[f].corrupt]
        IN /\ IF earlier # {}
              \* a redelivery carries the same id and text, on whatever thread the
              \* platform reports
              THEN \E j \in earlier : text = tasks[j].text
              ELSE /\ id = MsgOrder[Cardinality(used) + 1]
                   /\ used = {} => t = "t1"
           /\ t # "t1" => text = T_PRICE
           /\ tasks' = [tasks EXCEPT ![k] =
                  IF raised
                  THEN Return([h EXCEPT !.failure = "store", !.exit = "error"])
                  ELSE IF has_processed(store, id)
                  THEN Return([h EXCEPT !.gate = "duplicate", !.exit = "duplicate"])
                  ELSE [h EXCEPT !.pc = "should_process"]]
    /\ UNCHANGED <<store, clock, ret, marks, bk, observed>>

Handle(k) == HandleWith(k, FALSE)

ShouldProcess(k) ==
    /\ tasks[k].pc = "should_process"
    /\ LET h == [tasks[k] EXCEPT !.now_ts = clock,
                                 !.calls = Append(@, "should_process_message")]
           r == should_process_message(store, h.thread_id, h.id, Cooldown, clock)
       IN tasks' = [tasks EXCEPT ![k] =
              IF r[1] THEN [h EXCEPT !.pc = "mark_received", !.gate = "passed"]
              ELSE Return([h EXCEPT !.gate = "coalesced", !.exit = "coalesced"])]
    /\ UNCHANGED <<store, clock, ret, marks, bk, observed>>

MarkReceived(k) ==
    /\ tasks[k].pc = "mark_received"
    /\ LET h == tasks[k]
       IN /\ store' = mark_message_received(store, h.thread_id, h.id, h.now_ts)
          /\ tasks' = [tasks EXCEPT ![k] =
                 [h EXCEPT !.pc = "mark_processed",
                           !.calls = Append(@, "mark_message_received")]]
    /\ UNCHANGED <<clock, ret, marks, bk, observed>>

MarkProcessed(k) ==
    /\ tasks[k].pc = "mark_processed"
    /\ LET h == tasks[k]
       IN /\ store' = mark_processed(store, h.id)
          /\ tasks' = [tasks EXCEPT ![k] =
                 [h EXCEPT !.pc = "append_user", !.calls = Append(@, "mark_processed")]]
    /\ UNCHANGED <<clock, ret, marks, bk, observed>>

AppendUser(k) ==
    /\ tasks[k].pc = "append_user"
    /\ LET h == tasks[k]
       IN /\ store' = append_message(store, h.thread_id, HistoryEntry("user", h.text, h.id))
          /\ tasks' = [tasks EXCEPT ![k] =
                 [h EXCEPT !.pc = "get_state", !.appended = Append(@, "user")]]
    /\ UNCHANGED <<clock, ret, marks, bk, observed>>

GetState(k) ==
    /\ tasks[k].pc = "get_state"
    /\ LET h == tasks[k]
       IN tasks' = [tasks EXCEPT ![k] =
              [h EXCEPT !.pc = "set_last_seen", !.state = get_state(store, h.thread_id),
                        !.loaded_status = get_state(store, h.thread_id).booking_state.status]]
    /\ UNCHANGED <<store, clock, ret, marks, bk, observed>>

SetLastSeen(k) ==
    /\ tasks[k].pc = "set_last_seen"
    /\ LET h == tasks[k]
           state == [h.state EXCEPT !.last_seen_at = h.now_ts]
       IN /\ store' = set_state(store, h.thread_id, state)
          /\ tasks' = [tasks EXCEPT ![k] = [h EXCEPT !.pc = "resolve", !.state = state]]
    /\ UNCHANGED <<clock, ret, marks, bk, observed>>

ResolveContext(k) ==
    /\ tasks[k].pc = "resolve"
    /\ LET h == tasks[k]
           recent_messages == get_recent_messages(store, h.thread_id)
           context == resolve_context(h.text, recent_messages, h.state)
           h1 == [h EXCEPT !.context = context]
       IN tasks' = [tasks EXCEPT ![k] =
              [h1 EXCEPT !.pc = IF context.resolved_language # h.state.language
                                THEN "set_language" ELSE AfterContext(h1)]]
    /\ UNCHANGED <<store, clock, ret, marks, bk, observed>>

SetLanguage(k) ==
    /\ tasks[k].pc = "set_language"
    /\ LET h == tasks[k]
           state == [h.state EXCEPT !.language = h.context.resolved_language]
           h1 == [h EXCEPT !.state = state]
       IN /\ store' = set_state(store, h.thread_id, state)
          /\ tasks' = [tasks EXCEPT ![k] = [h1 EXCEPT !.pc = AfterContext(h1)]]
    /\ UNCHANGED <<clock, ret, marks, bk, observed>>

\* lines 153-206: the turn belongs to the booking machine (unless cancelled) or to
\* the selection machine
RouteSubflow(k) ==
    /\ tasks[k].pc = "route"
    /\ \E cal \in CalendarAnswers :
        LET h == tasks[k]
            res == process_booking_intent(h.text, h.state.booking_state,
                       h.context.resolved_service_key, h.state, LocalDate(clock), cal)
            sel == process_selection_intent(h.text, h.state.selection_state)
            state ==
                IF h.state.booking_state.status # "none"
                THEN IF has_cancel_keyword(h.text) THEN reset_booking_state(h.state)
                     ELSE [h.state EXCEPT
                             !.last_service = Or(@, h.context.resolved_service_key),
                             !.booking_state = res.updated_state]
                ELSE [h.state EXCEPT !.last_service = Or(@, sel.service_key),
                                     !.selection_state = sel.updated_state]
            in_booking_flow ==
                h.state.booking_state.status # "none" /\ ~has_cancel_keyword(h.text)
            h0 == IF in_booking_flow
                  THEN [h EXCEPT !.invoked = @ \cup {"booking"},
                                 !.machine_inputs = Append(@, h.state.booking_state.status)]
                  ELSE IF h.state.booking_state.status = "none"
                  THEN [h EXCEPT !.invoked = @ \cup {"selection"}]
                  ELSE h
            h1 == [h0 EXCEPT !.state = state,
                             !.booking_result = IF in_booking_flow THEN res.action ELSE Null,
                             !.changed = @ \cup
                                 (IF state.booking_state # h.state.booking_state
                                  THEN {"booking_state"} ELSE {})
                                 \cup
                                 (IF state.selection_state # h.state.selection_state
                                  THEN {"selection_state"} ELSE {})]
        IN IF in_booking_flow /\ res.raised
           \* the exception leaves the try block of handle(): the turn ends
           THEN /\ tasks' = [tasks EXCEPT ![k] =
                       Return([h0 EXCEPT !.failure = "booking", !.exit = "error"])]
                /\ observed' = [observed EXCEPT
                                   !.created = @ \o CreateEventCalls(h, res, cal)]
                /\ UNCHANGED store
           ELSE /\ store' = set_state(store, h.thread_id, state)
                /\ tasks' = [tasks EXCEPT ![k] =
                       [h1 EXCEPT !.pc = IF ~in_booking_flow THEN "classify"
                                         ELSE IF GreetingEligible(h) THEN "booking_greet"
                                         ELSE "booking_reply"]]
                /\ observed' = IF h.state.booking_state.status # "none"
                               THEN [observed EXCEPT
                                        !.booking_written[h.thread_id] = <<state.booking_state>>,
                                        !.created = IF in_booking_flow
                                                    THEN @ \o CreateEventCalls(h, res, cal)
                                                    ELSE @,
                                        !.confirmations = @ + EnteredConfirmed(h.state, state)]
                               ELSE observed
    /\ UNCHANGED <<clock, ret, marks, bk>>

\* line 226
BookingGreetCheck(k) ==
    /\ tasks[k].pc = "booking_greet"
    /\ LET h == [tasks[k] EXCEPT !.greet_checks = @ + 1]
       IN tasks' = [tasks EXCEPT ![k] =
              IF should_greet_today(store, h.thread_id, h.now_ts)
              THEN [h EXCEPT !.pc = "booking_mark_greeted", !.greeting_applicable = TRUE]
              ELSE [h EXCEPT !.pc = "booking_reply"]]
    /\ UNCHANGED <<store, clock, ret, marks, bk, observed>>

\* line 228
BookingMarkGreeted(k) ==
    /\ tasks[k].pc = "booking_mark_greeted"
    /\ LET h == tasks[k]
       IN /\ store' = mark_greeted(store, h.thread_id, h.now_ts)
          /\ tasks' = [tasks EXCEPT ![k] =
                 [h EXCEPT !.pc = "booking_reply", !.greet_marks = @ + 1]]
    /\ UNCHANGED <<clock, ret, marks, bk, observed>>

\* lines 230-246: the reply is composed (a composer error gives an empty text) and sent
BookingReply(k) ==
    /\ tasks[k].pc = "booking_reply"
    /\ \E composed \in {"text", "error"} :
        LET h == tasks[k]
            sent == composed = "text" /\ AUTO_REPLY_ENABLED
        IN /\ tasks' = [tasks EXCEPT ![k] =
                  [h EXCEPT !.pc = IF sent THEN "booking_append" ELSE "booking_final",
                            !.greeted_reply = composed = "text" /\ h.greeting_applicable,
                            !.should_handoff = composed = "error",
                            !.composed_with = IF h.greeting_applicable THEN "greeting"
                                              ELSE "plain",
                            !.sent = IF sent THEN @ + 1 ELSE @,
                            !.sent_after_failure = @ \/ (sent /\ h.failure # "none")]]
           /\ observed' = IF sent
                          THEN [observed EXCEPT !.sends = Append(@, <<h.id, h.thread_id>>)]
                          ELSE observed
    /\ UNCHANGED <<store, clock, ret, marks, bk>>

\* line 248
BookingAppendAssistant(k) ==
    /\ tasks[k].pc = "booking_append"
    /\ LET h == tasks[k]
       IN /\ store' = append_message(store, h.thread_id,
                                     HistoryEntry("assistant", "reply", h.id))
          /\ tasks' = [tasks EXCEPT ![k] =
                 [h EXCEPT !.pc = "booking_outbound", !.appended = Append(@, "assistant")]]
    /\ UNCHANGED <<clock, ret, marks, bk, observed>>

\* line 254
BookingMarkOutbound(k) ==
    /\ tasks[k].pc = "booking_outbound"
    /\ LET h == tasks[k]
       IN /\ store' = mark_outbound(store, h.thread_id, h.now_ts)
          /\ tasks' = [tasks EXCEPT ![k] =
                 [h EXCEPT !.pc = "booking_final", !.outbound = TRUE]]
    /\ UNCHANGED <<clock, ret, marks, bk, observed>>

\* lines 258-270
BookingFinalSetState(k) ==
    /\ tasks[k].pc = "booking_final"
    /\ LET h == tasks[k]
       IN /\ store' = set_state(store, h.thread_id, [h.state EXCEPT !.last_intent = "booking"])
          /\ tasks' = [tasks EXCEPT ![k] = Return([h EXCEPT !.exit = "booking_reply"])]
    /\ UNCHANGED <<clock, ret, marks, bk, observed>>

\* lines 281-354: the classifier answers, the registry overrides, and the turn decides
\* whether it enters the booking flow
Classify(k) ==
    /\ tasks[k].pc = "classify"
    /\ \E classified \in Intents(tasks[k].text) :
        LET h == tasks[k]
            resolved_service == h.context.resolved_service_key
            sticky == /\ classified \in {"pricing", "availability", "booking"}
                      /\ h.state.last_service # Null
                      /\ ~h.context.is_booking_request
            intent == IF resolved_service # Null
                      THEN IF classified = "services_list" THEN "service_details"
                           ELSE classified
                      ELSE IF sticky THEN classified
                      ELSE IF classified = "pricing" THEN "services_list"
                      ELSE classified
            service == IF resolved_service # Null THEN resolved_service
                       ELSE IF sticky THEN h.state.last_service
                       ELSE Null
            booking_state_active ==
                h.state.booking_state.status \in {"collecting_date", "collecting_time",
                                                  "confirming"}
            is_booking_reply == booking_state_active /\ contains_date_or_time(h.text)
            booking_signal ==
                \/ h.context.is_booking_request
                \/ /\ intent \in {"booking", "availability"}
                   /\ ~is_informational_question(h.text)
                   /\ ~asks_about_results(h.text)
            enter == booking_signal \/ is_booking_reply
            h1 == [h EXCEPT !.intent = intent, !.class_service = service,
                            !.should_enter_booking_flow = enter,
                            !.invoked = @ \cup {"classifier"},
                            !.final_intent = intent]
        IN tasks' = [tasks EXCEPT ![k] =
               [h1 EXCEPT !.pc = IF enter THEN "enter_booking" ELSE AfterBooking(h1)]]
    /\ UNCHANGED <<store, clock, ret, marks, bk, observed>>

\* lines 373-419: an exception of the booking machine is swallowed here
EnterBookingFlow(k) ==
    /\ tasks[k].pc = "enter_booking"
    /\ \E cal \in CalendarAnswers :
        LET h == tasks[k]
            resolved_service == h.context.resolved_service_key
            res == process_booking_intent(h.text, h.state.booking_state, resolved_service,
                                          h.state, LocalDate(clock), cal)
            state == [h.state EXCEPT !.last_service = Or(@, resolved_service),
                                     !.booking_state = res.updated_state]
            h0 == [h EXCEPT !.invoked = @ \cup {"booking"},
                            !.machine_inputs = Append(@, h.state.booking_state.status)]
            h1 == [h0 EXCEPT !.state = state, !.booking_result = res.action,
                             !.changed = @ \cup
                                 (IF state.booking_state # h.state.booking_state
                                  THEN {"booking_state"} ELSE {})]
        IN IF res.raised
           THEN /\ tasks' = [tasks EXCEPT ![k] =
                       [h0 EXCEPT !.pc = AfterBooking(h0), !.failure = "booking"]]
                /\ observed' = [observed EXCEPT
                                   !.created = @ \o CreateEventCalls(h, res, cal)]
                /\ UNCHANGED store
           ELSE /\ store' = set_state(store, h.thread_id, state)
                /\ tasks' = [tasks EXCEPT ![k] = [h1 EXCEPT !.pc = AfterBooking(h1)]]
                /\ observed' = [observed EXCEPT
                                   !.booking_written[h.thread_id] = <<state.booking_state>>,
                                   !.created = @ \o CreateEventCalls(h, res, cal),
                                   !.confirmations = @ + EnteredConfirmed(h.state, state)]
    /\ UNCHANGED <<clock, ret, marks, bk>>

\* lines 440-463
GreetCheck(k) ==
    /\ tasks[k].pc = "greet"
    /\ LET h == [tasks[k] EXCEPT !.greet_checks = @ + 1]
       IN tasks' = [tasks EXCEPT ![k] =
              IF should_greet_today(store, h.thread_id, h.now_ts)
              THEN [h EXCEPT !.pc = "mark_greeted", !.greeting_applicable = TRUE]
              ELSE [h EXCEPT !.pc = AfterGreeting(h)]]
    /\ UNCHANGED <<store, clock, ret, marks, bk, observed>>

MarkGreeted(k) ==
    /\ tasks[k].pc = "mark_greeted"
    /\ LET h == tasks[k]
       IN /\ store' = mark_greeted(store, h.thread_id, h.now_ts)
          /\ tasks' = [tasks EXCEPT ![k] =
                 [h EXCEPT !.pc = AfterGreeting(h), !.greet_marks = @ + 1]]
    /\ UNCHANGED <<clock, ret, marks, bk, observed>>

\* lines 500-545: the duration answer is composed and sent
DurationReply(k) ==
    /\ tasks[k].pc = "duration_reply"
    /\ \E composed \in {"text", "error"} :
        LET h == tasks[k]
            sent == composed = "text" /\ AUTO_REPLY_ENABLED
        IN /\ tasks' = [tasks EXCEPT ![k] =
                  [h EXCEPT !.pc = "duration_final",
                            !.greeted_reply = composed = "text" /\ h.greeting_applicable,
                            !.should_handoff = composed = "error",
                            !.composed_with = IF h.greeting_applicable THEN "greeting"
                                              ELSE "plain",
                            !.sent = IF sent THEN @ + 1 ELSE @,
                            !.sent_after_failure = @ \/ (sent /\ h.failure # "none")]]
           /\ observed' = IF sent
                          THEN [observed EXCEPT !.sends = Append(@, <<h.id, h.thread_id>>)]
                          ELSE observed
    /\ UNCHANGED <<store, clock, ret, marks, bk>>

\* lines 546-559
DurationFinalSetState(k) ==
    /\ tasks[k].pc = "duration_final"
    /\ LET h == tasks[k]
           state == [h.state EXCEPT
                       !.last_intent = h.intent,
                       !.last_service = Or(@, Or(h.class_service,
                                                 h.context.resolved_service_key))]
       IN /\ store' = set_state(store, h.thread_id, state)
          /\ tasks' = [tasks EXCEPT ![k] = Return([h EXCEPT !.exit = "duration"])]
    /\ UNCHANGED <<clock, ret, marks, bk, observed>>

\* lines 570-692 up to the greeting check: the intent is adjusted, the template is
\* looked up and the handoff decision is taken
\* raised: get_template raises, which the try at line 629 turns into "no handoff"
TemplateWith(k, template, raised) ==
    /\ tasks[k].pc = "template"
    /\ LET h == tasks[k]
            adjust == h.intent \in {"pricing", "service_details"} /\ ~h.context.is_price_question
            intent == IF ~adjust THEN h.intent
                      ELSE IF mentions_availability(h.text) THEN "availability"
                      ELSE "services_list"
            service == IF adjust /\ ~mentions_availability(h.text) THEN Null
                       ELSE h.class_service
            reason == IF raised THEN Null ELSE evaluate_outside_business(intent, template)
            h1 == [h EXCEPT !.intent = intent, !.class_service = service,
                            !.greeting_applicable = FALSE,
                            !.final_intent = intent,
                            !.template = IF raised THEN "raised"
                                         ELSE IF template THEN "found" ELSE "missing",
                            !.failure = IF raised THEN "kb" ELSE @]
        IN IF reason # Null
           THEN /\ store' = append_message(store, h.thread_id,
                                HistoryEntry("system", "HANDOFF", h.id))
                /\ tasks' = [tasks EXCEPT ![k] =
                       Return([h1 EXCEPT !.appended = Append(@, "system"),
                                         !.exit = "handoff"])]
           ELSE /\ tasks' = [tasks EXCEPT ![k] =
                       [h1 EXCEPT !.pc = IF /\ h.context.resolved_language \in {"en", "es"}
                                            /\ ~is_follow_up(h.text)
                                         THEN "greet_again" ELSE "reply"]]
                /\ UNCHANGED store
    /\ UNCHANGED <<clock, ret, marks, bk, observed>>

Template(k) == \E template \in BOOLEAN : TemplateWith(k, template, FALSE)

\* lines 687-692: the second greeting check of the normal flow, with a fresh now_ts
GreetCheckAgain(k) ==
    /\ tasks[k].pc = "greet_again"
    /\ LET h == [tasks[k] EXCEPT !.now_ts = clock, !.greet_checks = @ + 1]
       IN tasks' = [tasks EXCEPT ![k] =
              IF should_greet_today(store, h.thread_id, h.now_ts)
              THEN [h EXCEPT !.pc = "mark_greeted_again", !.greeting_applicable = TRUE]
              ELSE [h EXCEPT !.pc = "reply"]]
    /\ UNCHANGED <<store, clock, ret, marks, bk, observed>>

MarkGreetedAgain(k) ==
    /\ tasks[k].pc = "mark_greeted_again"
    /\ LET h == tasks[k]
       IN /\ store' = mark_greeted(store, h.thread_id, h.now_ts)
          /\ tasks' = [tasks EXCEPT ![k] = [h EXCEPT !.pc = "reply", !.greet_marks = @ + 1]]
    /\ UNCHANGED <<clock, ret, marks, bk, observed>>

\* lines 693-758: the reply is composed; a composer error is a handoff, a text is sent
Reply(k) ==
    /\ tasks[k].pc = "reply"
    /\ \E composed \in {"text", "error"} :
        LET h == tasks[k]
        IN IF composed = "error"
           THEN /\ store' = append_message(store, h.thread_id,
                                HistoryEntry("system", "HANDOFF", h.id))
                /\ tasks' = [tasks EXCEPT ![k] =
                       Return([h EXCEPT !.appended = Append(@, "system"),
                                        !.should_handoff = TRUE,
                                        !.composed_with = IF h.greeting_applicable
                                                          THEN "greeting" ELSE "plain",
                                        !.exit = "composer_handoff"])]
                /\ UNCHANGED observed
           ELSE /\ tasks' = [tasks EXCEPT ![k] =
                       [h EXCEPT !.pc = IF AUTO_REPLY_ENABLED THEN "append_assistant"
                                        ELSE AfterSend(h),
                                 !.greeted_reply = h.greeting_applicable,
                                 !.composed_with = IF h.greeting_applicable THEN "greeting"
                                                   ELSE "plain",
                                 !.sent = IF AUTO_REPLY_ENABLED THEN @ + 1 ELSE @,
                                 !.sent_after_failure =
                                     @ \/ (AUTO_REPLY_ENABLED /\ h.failure # "none")]]
                /\ observed' = IF AUTO_REPLY_ENABLED
                               THEN [observed EXCEPT
                                        !.sends = Append(@, <<h.id, h.thread_id>>)]
                               ELSE observed
                /\ UNCHANGED store
    /\ UNCHANGED <<clock, ret, marks, bk>>

\* line 760
AppendAssistant(k) ==
    /\ tasks[k].pc = "append_assistant"
    /\ LET h == tasks[k]
       IN /\ store' = append_message(store, h.thread_id,
                                     HistoryEntry("assistant", "reply", h.id))
          /\ tasks' = [tasks EXCEPT ![k] =
                 [h EXCEPT !.pc = "mark_outbound", !.appended = Append(@, "assistant")]]
    /\ UNCHANGED <<clock, ret, marks, bk, observed>>

\* line 766
MarkOutbound(k) ==
    /\ tasks[k].pc = "mark_outbound"
    /\ LET h == tasks[k]
       IN /\ store' = mark_outbound(store, h.thread_id, clock)
          /\ tasks' = [tasks EXCEPT ![k] = [h EXCEPT !.pc = AfterSend(h), !.outbound = TRUE]]
    /\ UNCHANGED <<clock, ret, marks, bk, observed>>

\* lines 789-796
BookingRequestHandoff(k) ==
    /\ tasks[k].pc = "booking_handoff"
    /\ LET h == tasks[k]
       IN /\ store' = append_message(store, h.thread_id,
                                     HistoryEntry("system", "HANDOFF", h.id))
          /\ tasks' = [tasks EXCEPT ![k] =
                 Return([h EXCEPT !.appended = Append(@, "system"),
                                  !.exit = "booking_request_handoff"])]
    /\ UNCHANGED <<clock, ret, marks, bk, observed>>

\* lines 803-815
FinalSetState(k) ==
    /\ tasks[k].pc = "final"
    /\ LET h == tasks[k]
           updated_state == [h.state EXCEPT
                               !.last_intent = h.intent,
                               !.last_service = Or(@, Or(h.class_service,
                                                         h.context.resolved_service_key))]
       IN /\ store' = set_state(store, h.thread_id, updated_state)
          /\ tasks' = [tasks EXCEPT ![k] = Return([h EXCEPT !.exit = "final"])]
    /\ UNCHANGED <<clock, ret, marks, bk, observed>>

Next ==
    \/ TimePasses
    \/ \E k \in Tasks :
        \/ Handle(k)
        \/ ShouldProcess(k)
        \/ MarkReceived(k)
        \/ MarkProcessed(k)
        \/ AppendUser(k)
        \/ GetState(k)
        \/ SetLastSeen(k)
        \/ ResolveContext(k)
        \/ SetLanguage(k)
        \/ RouteSubflow(k)
        \/ BookingGreetCheck(k)
        \/ BookingMarkGreeted(k)
        \/ BookingReply(k)
        \/ BookingAppendAssistant(k)
        \/ BookingMarkOutbound(k)
        \/ BookingFinalSetState(k)
        \/ Classify(k)
        \/ EnterBookingFlow(k)
        \/ GreetCheck(k)
        \/ MarkGreeted(k)
        \/ DurationReply(k)
        \/ DurationFinalSetState(k)
        \/ Template(k)
        \/ GreetCheckAgain(k)
        \/ MarkGreetedAgain(k)
        \/ Reply(k)
        \/ AppendAssistant(k)
        \/ MarkOutbound(k)
        \/ BookingRequestHandoff(k)
        \/ FinalSetState(k)

Spec == InitHandler /\ [][Next]_vars

(***************************************************************************)
(* A dialogue: one customer writes on one thread, a message every Cooldown *)
(* seconds, and each handle() runs to its end before the next message      *)
(* arrives.                                                                *)
(***************************************************************************)
MaxDialogue == 5

DialogueIds == <<"m1", "m2", "m3", "m4", "m5", "m6", "m7">>

\* what the customer writes as the n-th message: a question or a booking request
\* first, then the answers the booking dialogue asks for, or a cancellation
DialogueTexts(n) ==
    CASE n = 1 -> {T_BOOK, T_PRICE, T_DURATION}
      [] n = 2 -> {T_DATE, T_CANCEL, T_PRICE}
      [] n = 3 -> {T_TIME, T_CANCEL, T_PRICE}
      [] n = 4 -> {T_YES, T_CANCEL, T_PRICE}
      [] OTHER -> {T_PRICE, T_DATE, T_CANCEL, T_BOOK}

NextMessage ==
    /\ tasks[1].pc \in {"idle", "done"}
    /\ tasks[2].pc = "idle"
    /\ observed.turns < MaxDialogue
    /\ \E text \in DialogueTexts(observed.turns + 1) :
        LET id == DialogueIds[observed.turns + 1]
            h == [IdleTask EXCEPT !.id = id, !.thread_id = "t1", !.text = text,
                                  !.calls = <<"has_processed">>]
        IN tasks' = [tasks EXCEPT ![1] =
               IF has_processed(store, id)
               THEN Return([h EXCEPT !.gate = "duplicate", !.exit = "duplicate"])
               ELSE [h EXCEPT !.pc = "should_process"]]
    /\ clock' = IF observed.turns = 0 THEN clock ELSE clock + Cooldown
    /\ observed' = [observed EXCEPT !.turns = @ + 1]
    /\ UNCHANGED <<store, ret, marks, bk>>

NextDialogue ==
    \/ NextMessage
    \/ ShouldProcess(1)
    \/ MarkReceived(1)
    \/ MarkProcessed(1)
    \/ AppendUser(1)
    \/ GetState(1)
    \/ SetLastSeen(1)
    \/ ResolveContext(1)
    \/ SetLanguage(1)
    \/ RouteSubflow(1)
    \/ BookingGreetCheck(1)
    \/ BookingMarkGreeted(1)
    \/ BookingReply(1)
    \/ BookingAppendAssistant(1)
    \/ BookingMarkOutbound(1)
    \/ BookingFinalSetState(1)
    \/ Classify(1)
    \/ EnterBookingFlow(1)
    \/ GreetCheck(1)
    \/ MarkGreeted(1)
    \/ DurationReply(1)
    \/ DurationFinalSetState(1)
    \/ Template(1)
    \/ GreetCheckAgain(1)
    \/ MarkGreetedAgain(1)
    \/ Reply(1)
    \/ AppendAssistant(1)
    \/ MarkOutbound(1)
    \/ BookingRequestHandoff(1)
    \/ FinalSetState(1)

SpecDialogue == InitHandler /\ [][NextDialogue]_vars

\* the dialogue of a customer who may also ask about a category of services
CategoryTexts(n) == IF n <= 2 THEN DialogueTexts(n) \cup {T_LASER} ELSE DialogueTexts(n)

NextCategoryMessage ==
    /\ tasks[1].pc \in {"idle", "done"}
    /\ tasks[2].pc = "idle"
    /\ observed.turns < MaxDialogue
    /\ \E text \in CategoryTexts(observed.turns + 1) :
        LET id == DialogueIds[observed.turns + 1]
            h == [IdleTask EXCEPT !.id = id, !.thread_id = "t1", !.text = text,
                                  !.calls = <<"has_processed">>]
        IN tasks' = [tasks EXCEPT ![1] =
               IF has_processed(store, id)
               THEN Return([h EXCEPT !.gate = "duplicate", !.exit = "duplicate"])
               ELSE [h EXCEPT !.pc = "should_process"]]
    /\ clock' = IF observed.turns = 0 THEN clock ELSE clock + Cooldown
    /\ observed' = [observed EXCEPT !.turns = @ + 1]
    /\ UNCHANGED <<store, ret, marks, bk>>

NextCategoryDialogue ==
    \/ NextCategoryMessage
    \/ ShouldProcess(1)
    \/ MarkReceived(1)
    \/ MarkProcessed(1)
    \/ AppendUser(1)
    \/ GetState(1)
    \/ SetLastSeen(1)
    \/ ResolveContext(1)
    \/ SetLanguage(1)
    \/ RouteSubflow(1)
    \/ BookingGreetCheck(1)
    \/ BookingMarkGreeted(1)
    \/ BookingReply(1)
    \/ BookingAppendAssistant(1)
    \/ BookingMarkOutbound(1)
    \/ BookingFinalSetState(1)
    \/ Classify(1)
    \/ EnterBookingFlow(1)
    \/ GreetCheck(1)
    \/ MarkGreeted(1)
    \/ DurationReply(1)
    \/ DurationFinalSetState(1)
    \/ Template(1)
    \/ GreetCheckAgain(1)
    \/ MarkGreetedAgain(1)
    \/ Reply(1)
    \/ AppendAssistant(1)
    \/ MarkOutbound(1)
    \/ BookingRequestHandoff(1)
    \/ FinalSetState(1)

SpecCategoryDialogue == InitHandler /\ [][NextCategoryDialogue]_vars

\* the same dialogue on a deployment with the auto-reply toggle on or off
InitAutoReply ==
    /\ store \in {NewStore(k) : k \in StoreKinds}
    /\ clock = 0
    /\ ret = NoRet
    /\ marks = NoMarks
    /\ bk = NoBooking
    /\ tasks = [k \in Tasks |-> IdleTask]
    /\ observed \in {[NoObserved EXCEPT !.auto_reply = b] : b \in BOOLEAN}

SpecAutoReply == InitAutoReply /\ [][NextDialogue]_vars

(***************************************************************************)
(* Failures.  Deliveries come one after the other; any call of the store,  *)
(* the classifier, the knowledge base or the platform may raise, and a     *)
(* thread file may become unreadable between two turns.                    *)
(***************************************************************************)
\* status codes of a rejected send; 0 stands for a failure without HTTP response
SendFailures == {403, 500, 0}

\* line 818, with a comparison against the wrong status
is_403_server_error(status_code) == status_code = 500

\* line 818
is_403(status_code) == status_code = 403

Quiet == \A j \in Tasks : tasks[j].pc \in {"idle", "done", "crashed"}

\* steps of handle() that are one store call inside the try of line 73 alone
OuterStoreSteps ==
    {"should_process", "mark_received", "mark_processed", "append_user", "get_state",
     "set_last_seen", "resolve", "set_language", "booking_greet", "booking_mark_greeted",
     "booking_append", "booking_outbound", "booking_final", "duration_final",
     "greet_again", "mark_greeted_again", "append_assistant", "mark_outbound",
     "booking_handoff", "final"}

\* a thread file becomes unreadable between two turns
CorruptThreadFile ==
    /\ Quiet
    /\ store.kind = "json"
    /\ \A f \in Threads : ~store.files[f].corrupt
    /\ \E t \in Threads :
        /\ store.files[t].exists
        /\ store' = [store EXCEPT !.files[t].corrupt = TRUE]
    /\ UNCHANGED <<clock, ret, marks, bk, tasks, observed>>

\* a store call raises: the except at line 868 logs it and handle() returns
StoreFails(k) ==
    /\ tasks[k].pc \in OuterStoreSteps
    /\ tasks[k].failure = "none"
    /\ tasks' = [tasks EXCEPT ![k] = Return([@ EXCEPT !.failure = "store", !.exit = "error"])]
    /\ UNCHANGED <<store, clock, ret, marks, bk, observed>>

\* line 281: the classifier raises
ClassifierFails(k) ==
    /\ tasks[k].pc = "classify"
    /\ tasks[k].failure = "none"
    /\ tasks' = [tasks EXCEPT ![k] =
           Return([@ EXCEPT !.invoked = @ \cup {"classifier"},
                            !.failure = "classifier", !.exit = "error"])]
    /\ UNCHANGED <<store, clock, ret, marks, bk, observed>>

\* line 166: a calendar query of the booking machine (booking.py:138, 191, 204, 221)
\* raises
CalendarFails(k) ==
    /\ tasks[k].pc = "route"
    /\ tasks[k].failure = "none"
    /\ LET h == tasks[k]
           b == h.state.booking_state
       IN /\ ~has_cancel_keyword(h.text)
          /\ \/ /\ b.status = "collecting_date"
                /\ parse_date_preference(h.text, LocalDate(clock)) # <<>>
             \/ /\ b.status = "collecting_time"
                /\ b.proposed_date # NoDt
                /\ \/ parse_time_preference(h.text) # <<>>
                   \/ map_vague_time_to_range(h.text) # <<>>
          /\ tasks' = [tasks EXCEPT ![k] =
                 Return([h EXCEPT !.invoked = @ \cup {"booking"},
                                  !.machine_inputs = Append(@, b.status),
                                  !.failure = "calendar", !.exit = "error"])]
    /\ UNCHANGED <<store, clock, ret, marks, bk, observed>>

\* lines 441-478: should_greet_today or mark_greeted raises, the except at line 471
\* logs it and the turn goes on
GreetingStoreFails(k) ==
    /\ tasks[k].pc \in {"greet", "mark_greeted"}
    /\ tasks[k].failure = "none"
    /\ LET h == tasks[k]
       IN tasks' = [tasks EXCEPT ![k] = [h EXCEPT !.pc = AfterGreeting(h), !.failure = "store"]]
    /\ UNCHANGED <<store, clock, ret, marks, bk, observed>>

\* lines 629-664: get_template raises
TemplateFails(k) ==
    /\ tasks[k].failure = "none"
    /\ TemplateWith(k, FALSE, TRUE)

\* the platform rejects the send (raise_for_status) or cannot be reached: nothing is
\* delivered, and the exception leaves the try of line 73
SendFails(k) ==
    /\ tasks[k].pc \in {"booking_reply", "duration_reply", "reply"}
    /\ AUTO_REPLY_ENABLED
    /\ tasks[k].failure = "none"
    /\ \E status_code \in SendFailures :
        LET h == [tasks[k] EXCEPT !.failure = IF status_code = 403 THEN "send_403" ELSE "send"]
        IN tasks' = [tasks EXCEPT ![k] =
               IF is_403(status_code) THEN [h EXCEPT !.pc = "failed_send"]
               ELSE Return([h EXCEPT !.exit = "error"])]
    /\ UNCHANGED <<store, clock, ret, marks, bk, observed>>

\* lines 858-867: the failed send is recorded in the history
AppendFailedSend(k) ==
    /\ tasks[k].pc = "failed_send"
    /\ LET h == tasks[k]
       IN /\ store' = append_message(store, h.thread_id,
                                     HistoryEntry("system", "FAILED_SEND", h.id))
          /\ tasks' = [tasks EXCEPT ![k] =
                 Return([h EXCEPT !.appended = Append(@, "system"), !.exit = "failed_send"])]
    /\ UNCHANGED <<clock, ret, marks, bk, observed>>

\* line 858 raises inside the except clause of line 816: no handler is left, and the
\* exception leaves handle()
AppendFailedSendFails(k) ==
    /\ tasks[k].pc = "failed_send"
    /\ tasks' = [tasks EXCEPT ![k] =
           [Return(@) EXCEPT !.pc = "crashed", !.failure = "store", !.exit = "raised"]]
    /\ UNCHANGED <<store, clock, ret, marks, bk, observed>>

NextFaults ==
    \/ TimePasses
    \/ CorruptThreadFile
    \/ \E k \in Tasks :
        \/ Quiet /\ Handle(k)
        \/ Quiet /\ HandleWith(k, TRUE)
        \/ StoreFails(k)
        \/ ClassifierFails(k)
        \/ CalendarFails(k)
        \/ GreetingStoreFails(k)
        \/ TemplateFails(k)
        \/ SendFails(k)
        \/ AppendFailedSend(k)
        \/ AppendFailedSendFails(k)
        \/ ShouldProcess(k)
        \/ MarkReceived(k)
        \/ MarkProcessed(k)
        \/ AppendUser(k)
        \/ GetState(k)
        \/ SetLastSeen(k)
        \/ ResolveContext(k)
        \/ SetLanguage(k)
        \/ RouteSubflow(k)
        \/ BookingGreetCheck(k)
        \/ BookingMarkGreeted(k)
        \/ BookingReply(k)
        \/ BookingAppendAssistant(k)
        \/ BookingMarkOutbound(k)
        \/ BookingFinalSetState(k)
        \/ Classify(k)
        \/ EnterBookingFlow(k)
        \/ GreetCheck(k)
        \/ MarkGreeted(k)
        \/ DurationReply(k)
        \/ DurationFinalSetState(k)
        \/ Template(k)
        \/ GreetCheckAgain(k)
        \/ MarkGreetedAgain(k)
        \/ Reply(k)
        \/ AppendAssistant(k)
        \/ MarkOutbound(k)
        \/ BookingRequestHandoff(k)
        \/ FinalSetState(k)

SpecFaults == InitHandler /\ [][NextFaults]_vars

(***************************************************************************)
(* Reply composer: ReplyComposer.compose.  A text is the sequence of its   *)
(* paragraphs; a paragraph is known by its name and by the number of       *)
(* "Pricing: $N" / "Precio: $N" lines it carries.  The knowledge base is a *)
(* port: what its templates and its canonical service message carry is an  *)
(* input of the composer.                                                  *)
(***************************************************************************)
\* most pricing lines a single template or message of the knowledge base carries
MaxPricingLines == 2

Block(name, pricing) == [name |-> name, pricing |-> pricing]

\* no block: None, or an empty text
NoBlock == Block(Null, 0)

ComposedReply(text, error) == [text |-> text, error |-> error]

_get_fallback_services_list == <<Block("fallback_services_list", 0)>>

\* the greeting text of the language: "Hola, gracias por escribirnos!" for es,
\* "Hello, thank you for reaching out!" otherwise
_greeting(language) == Block(IF language = "es" THEN "greeting_es" ELSE "greeting_en", 0)

\* a greeting check that accepts the greeting of either language
_validate_greeting_block_bilingual(text) ==
    text \in {Block("greeting_en", 0), Block("greeting_es", 0)}

\* the block must be the English greeting; none of the forbidden patterns occurs in it
_validate_greeting_block(text) == text = Block("greeting_en", 0)

RECURSIVE _count_pricing_occurrences(_)
_count_pricing_occurrences(text) ==
    IF text = <<>> THEN 0 ELSE Head(text).pricing + _count_pricing_occurrences(Tail(text))

\* the "Pricing: $N" patterns are cut out of the answer
_strip_pricing_from_yesno(text) == [text EXCEPT !.pricing = 0]

_validate_no_pricing_in_yesno(yesno_answer) ==
    IF yesno_answer = NoBlock THEN TRUE ELSE yesno_answer.pricing = 0

\* empty blocks are dropped
_join_blocks(blocks) == SelectSeq(blocks, LAMBDA b : b # NoBlock)

RECURSIVE _dedupe_paragraphs(_)
_dedupe_paragraphs(text) ==
    IF text = <<>> THEN <<>>
    ELSE LET init == SubSeq(text, 1, Len(text) - 1)
             last == text[Len(text)]
         IN IF InSeq(last, init) THEN _dedupe_paragraphs(init)
            ELSE Append(_dedupe_paragraphs(init), last)

\* KnowledgeBasePort.get_template as the knowledge base kb answers it
get_template(kb, intent, service) ==
    CASE intent = "pricing" ->
             IF service # Null /\ kb.pricing >= 0 THEN Block("pricing", kb.pricing) ELSE NoBlock
      [] intent \in {"booking_info", "services_list", "location", "hours", "equipment"} ->
             Block(intent, kb.other)
      [] OTHER -> NoBlock

\* KnowledgeBasePort.get_canonical_service_message
get_canonical_service_message(kb, registry_key) ==
    IF kb.canonical >= 0 THEN Block("canonical", kb.canonical) ELSE NoBlock

_select_detail_block(kb, intent, service, explicit_price_intent) ==
    IF intent \in {"pricing", "service_details", "availability", "booking"}
    THEN IF service # Null
         THEN IF intent \in {"pricing", "service_details"} /\ ~explicit_price_intent
              THEN get_template(kb, "booking_info", Null)
              ELSE IF intent \in {"availability", "booking"}
              THEN get_template(kb, "booking_info", Null)
              ELSE get_template(kb, "pricing", service)
         ELSE IF intent \in {"availability", "booking"}
         THEN get_template(kb, "booking_info", Null)
         ELSE get_template(kb, "services_list", Null)
    ELSE IF intent \in {"services_list", "location", "hours"}
    THEN get_template(kb, intent, Null)
    ELSE NoBlock

\* the closing question or invitation, if the intent has one
_select_cta_block(intent, is_laser_service) ==
    IF is_laser_service \/ intent \in {"availability", "booking", "services_list", "hours",
                                       "location", "pricing", "service_details"}
    THEN Block("cta", 0) ELSE NoBlock

\* a: the arguments of compose; valid: the verdict of the validators that do not look
\* at pricing (yes/no format, detail, call to action, service names, banned
\* words, emoji, system language)
compose(kb, a, valid) ==
    LET greeting_block == IF a.greeting_applicable THEN _greeting(a.language) ELSE NoBlock
        booking_message == IF a.booking_result \in {Null, "reset"} THEN NoBlock
                           ELSE Block("booking", 0)
        registry_key ==
            IF a.user_message_text # Null
            THEN resolve_service_to_registry_key(a.user_message_text)
            ELSE a.resolved_service
        canonical_message ==
            IF registry_key # Null THEN get_canonical_service_message(kb, registry_key)
            ELSE NoBlock
        stripped == IF a.yesno_answer = NoBlock THEN NoBlock
                    ELSE _strip_pricing_from_yesno(a.yesno_answer)
        \* the yes/no answer is replaced by the stripped one off the canonical path only
        yesno_answer == IF canonical_message # NoBlock THEN a.yesno_answer ELSE stripped
        selected == IF a.booking_only_cta THEN NoBlock
                    ELSE _select_detail_block(kb, a.intent, a.resolved_service,
                                              a.explicit_price_intent)
        detail == IF canonical_message # NoBlock THEN canonical_message ELSE selected
        equipment == IF a.include_equipment THEN get_template(kb, "equipment", Null) ELSE NoBlock
        with_facts == a.include_session_facts /\ a.resolved_service # Null
                          /\ a.explicit_price_intent
        session_fact == IF with_facts THEN Block("session_facts", kb.other) ELSE NoBlock
        location == IF a.include_location THEN get_template(kb, "location", Null) ELSE NoBlock
        is_laser_service == registry_key # Null \/ a.resolved_service # Null
        cta == _select_cta_block(a.intent, is_laser_service)
        first == _dedupe_paragraphs(_join_blocks(
                     <<greeting_block,
                       IF canonical_message # NoBlock THEN NoBlock ELSE yesno_answer,
                       detail, equipment, session_fact, location, cta>>))
        cleaned == _dedupe_paragraphs(_join_blocks(
                       <<greeting_block, stripped, detail, location, cta>>))
        reply_text == IF yesno_answer # NoBlock /\ ~_validate_no_pricing_in_yesno(yesno_answer)
                      THEN cleaned ELSE first
        pricing_count == _count_pricing_occurrences(reply_text)
    IN IF a.greeting_applicable /\ ~_validate_greeting_block(greeting_block)
       THEN ComposedReply(_get_fallback_services_list, "greeting_validation_failed")
       ELSE IF booking_message # NoBlock
       THEN IF valid THEN ComposedReply(_join_blocks(<<greeting_block, booking_message>>), Null)
            ELSE ComposedReply(_get_fallback_services_list, "booking_validation_failed")
       ELSE IF canonical_message = NoBlock /\ ~a.booking_only_cta /\ selected = NoBlock
       THEN ComposedReply(<<>>, "missing_detail")
       ELSE IF session_fact # NoBlock /\ session_fact.pricing > 0
       THEN ComposedReply(_get_fallback_services_list, "session_facts_validation_failed")
       ELSE IF ~valid
       THEN ComposedReply(_get_fallback_services_list, "validation_failed")
       ELSE IF canonical_message = NoBlock /\ pricing_count > 1
       THEN ComposedReply(_get_fallback_services_list, "pricing_duplication")
       ELSE IF canonical_message = NoBlock /\ pricing_count > 0 /\ ~a.explicit_price_intent
       THEN ComposedReply(_get_fallback_services_list, "pricing_without_explicit_intent")
       ELSE ComposedReply(reply_text, Null)

\* knowledge bases: -1 stands for "no canonical message" / "no pricing template"
KnowledgeBases ==
    [canonical : -1..MaxPricingLines, pricing : -1..MaxPricingLines, other : 0..1]

ComposeArguments ==
    [intent : {"pricing", "service_details", "availability", "smalltalk"},
     resolved_service : {Null, SERVICE},
     language : {"en", "es"},
     greeting_applicable : BOOLEAN,
     yesno_answer : {NoBlock, Block("yesno", 0), Block("yesno", 1)},
     include_location : BOOLEAN,
     booking_only_cta : BOOLEAN,
     explicit_price_intent : BOOLEAN,
     include_equipment : BOOLEAN,
     include_session_facts : BOOLEAN,
     user_message_text : {Null, T_PRICE, T_DATE},
     booking_result : {Null, "ask_date", "reset"}]

InitCompose ==
    /\ store = NewStore("memory")
    /\ clock = 0
    /\ ret = NoRet
    /\ marks = NoMarks
    /\ bk = NoBooking
    /\ tasks = [k \in Tasks |-> IdleTask]
    /\ observed = NoObserved

\* one call of compose() per run
Compose ==
    /\ ret = NoRet
    /\ \E kb \in KnowledgeBases, a \in ComposeArguments, valid \in BOOLEAN :
        ret' = [op |-> "compose", kb |-> kb, args |-> a, valid |-> valid,
                value |-> compose(kb, a, valid)]
    /\ UNCHANGED <<store, clock, marks, bk, tasks, observed>>

SpecCompose == InitCompose /\ [][Compose]_vars

(***************************************************************************)
(* Store-level drivers: a caller that invokes the store API directly, the  *)
(* way the test scripts do, with the wall clock as the timestamp argument. *)
(***************************************************************************)
InitStore ==
    /\ store \in {NewStore(k) : k \in StoreKinds}
    /\ clock = 0
    /\ ret = NoRet
    /\ marks = NoMarks
    /\ bk = NoBooking
    /\ tasks = [k \in Tasks |-> IdleTask]
    /\ observed = NoObserved

\* time passes
Tick ==
    /\ clock < MaxTime
    /\ clock' = clock + 1
    /\ ret' = NoRet
    /\ UNCHANGED <<store, marks, bk, tasks, observed>>

CallHasProcessed ==
    \E id \in MsgIds :
        /\ ret' = [op |-> "has_processed", thread |-> Null, id |-> id, now |-> clock,
                   value |-> <<has_processed(store, id)>>]
        /\ UNCHANGED <<store, clock, marks, bk, tasks, observed>>

CallMarkProcessed ==
    \E id \in MsgIds :
        /\ store' = mark_processed(store, id)
        /\ marks' = [marks EXCEPT !.processed = @ \cup {id}]
        /\ ret' = NoRet
        /\ UNCHANGED <<clock, bk, tasks, observed>>

CallShouldProcessMessage ==
    \E t \in Threads, id \in MsgIds :
        /\ ret' = [op |-> "should_process_message", thread |-> t, id |-> id, now |-> clock,
                   value |-> should_process_message(store, t, id, Cooldown, clock)]
        /\ UNCHANGED <<store, clock, marks, bk, tasks, observed>>

CallMarkMessageReceived ==
    \E t \in Threads, id \in MsgIds :
        /\ store' = mark_message_received(store, t, id, clock)
        /\ marks' = [marks EXCEPT !.received[t] = <<id, clock>>]
        /\ ret' = NoRet
        /\ UNCHANGED <<clock, bk, tasks, observed>>

\* a caller replaces the state of a thread by a copy of the state it has just read,
\* with last_intent changed (the full-replacement idiom of the callers)
CallSetState ==
    \E t \in Threads :
        /\ store' = set_state(store, t, [get_state(store, t) EXCEPT !.last_intent = "pricing"])
        /\ ret' = NoRet
        /\ UNCHANGED <<clock, marks, bk, tasks, observed>>

CallShouldGreetToday ==
    \E t \in Threads :
        /\ ret' = [op |-> "should_greet_today", thread |-> t, id |-> Null, now |-> clock,
                   value |-> <<should_greet_today(store, t, clock)>>]
        /\ UNCHANGED <<store, clock, marks, bk, tasks, observed>>

CallMarkGreeted ==
    \E t \in Threads :
        /\ store' = mark_greeted(store, t, clock)
        /\ marks' = [marks EXCEPT !.greeted[t] = clock]
        /\ ret' = NoRet
        /\ UNCHANGED <<clock, bk, tasks, observed>>

CallMarkOutbound ==
    \E t \in Threads :
        /\ store' = mark_outbound(store, t, clock)
        /\ ret' = NoRet
        /\ UNCHANGED <<clock, marks, bk, tasks, observed>>

\* the calendar reports availability: it has a free slot on the day, the requested
\* window is free, and the event is created
ReportsAvailability(cal) == cal.slots >= 1 /\ cal.available /\ cal.event_id # "raise"

InitBooking ==
    /\ store = NewStore("memory")
    /\ clock \in 0..MaxTime
    /\ ret = NoRet
    /\ marks = NoMarks
    /\ bk \in {[NoBooking EXCEPT !.last_service = ls] : ls \in {Null, SERVICE}}
    /\ tasks = [k \in Tasks |-> IdleTask]
    /\ observed = NoObserved

\* one call of process_booking_intent; the caller keeps the updated state for the
\* next call, and keeps the old state when the call raises
BookingTurn ==
    \E text \in Texts, cal \in CalendarAnswers :
        LET service == resolve_service_to_registry_key(text)
            conv == [DefaultConversationState EXCEPT !.last_service = bk.last_service,
                                                     !.booking_state = bk.state]
            res == process_booking_intent(text, bk.state, service, conv,
                                          LocalDate(clock), cal)
            follows == /\ bk.on_script
                       /\ bk.turns < Len(Script)
                       /\ text = Script[bk.turns + 1]
                       /\ ReportsAvailability(cal)
        IN /\ bk.turns < MaxTurns
           /\ bk' = [bk EXCEPT !.state = res.updated_state,
                               !.turns = @ + 1,
                               !.on_script = follows,
                               !.actions = IF follows THEN Append(@, res.action) ELSE <<>>,
                               !.statuses = IF follows THEN Append(@, res.updated_state.status)
                                            ELSE <<>>,
                               !.last = res]
           /\ UNCHANGED <<store, clock, ret, marks, tasks, observed>>

NextBooking == BookingTurn

SpecBooking == InitBooking /\ [][NextBooking]_vars

\* the arguments of one process_booking_intent call
BookingArguments ==
    [message_text : Texts,
     current_state : {BookingState(status, proposed_date, proposed_time, service_key, Null, Null) :
                        status \in {"none", "collecting_service", "collecting_date",
                                    "collecting_time", "confirming", "confirmed"},
                        proposed_date \in {NoDt, <<1, 0, 0>>},
                        proposed_time \in {NoDt, <<1, 14, 0>>},
                        service_key \in {Null, SERVICE}},
     service : {Null, SERVICE},
     last_service : {Null, SERVICE},
     selected_service_key : {Null, SERVICE},
     cal : CalendarAnswers]

\* one call of process_booking_intent on a fresh use case, one call per run
CallProcessBookingIntent ==
    /\ ret = NoRet
    /\ \E a \in BookingArguments :
        LET conv == [DefaultConversationState EXCEPT
                        !.last_service = a.last_service,
                        !.booking_state = a.current_state,
                        !.selection_state.selected_service_key = a.selected_service_key]
            res == process_booking_intent(a.message_text, a.current_state, a.service, conv,
                                          LocalDate(clock), a.cal)
        IN ret' = [op |-> "process_booking_intent", thread |-> Null, id |-> Null,
                   now |-> clock, value |-> <<a, res>>]
    /\ UNCHANGED <<store, clock, marks, bk, tasks, observed>>

SpecBookingStep == InitBooking /\ [][CallProcessBookingIntent]_vars

\* a second key of the service registry
SERVICE_B == "microdermabrasion"

\* the booking states handle() can hold when a turn starts inside the booking flow
\* (status other than none, line 153)
FlowBookingStates ==
    {b \in {BookingState(status, proposed_date, proposed_time, service_key, event_id, event_id) :
              status \in {"collecting_service", "collecting_date", "collecting_time",
                          "confirming", "confirmed"},
              proposed_date \in {NoDt, <<1, 0, 0>>},
              proposed_time \in {NoDt, <<1, 14, 0>>},
              service_key \in {Null, SERVICE, SERVICE_B},
              event_id \in {Null, "evt_1"}} :
        /\ b.status = "collecting_service" <=> b.service_key = Null
        /\ b.status \in {"collecting_service", "collecting_date"} => b.proposed_date = NoDt
        /\ b.status \in {"collecting_time", "confirming", "confirmed"} => b.proposed_date # NoDt
        /\ b.status \in {"confirming", "confirmed"} <=> b.proposed_time # NoDt
        /\ b.status = "confirmed" <=> b.calendar_event_id # Null}

\* handle() lines 153-185 for a message inside the booking flow that holds no cancel
\* keyword: the service comes from resolve_context, the booking machine runs on the
\* persisted booking state and the conversation state is rebuilt around the result
BookingTurnArguments ==
    [message_text : {text \in Texts : ~has_cancel_keyword(text)},
     booking_state : FlowBookingStates,
     last_service : {Null, SERVICE, SERVICE_B},
     selected_service_key : {Null, SERVICE},
     cal : CalendarAnswers]

ContinueBookingFlow ==
    /\ ret = NoRet
    /\ \E a \in BookingTurnArguments :
        LET state == [DefaultConversationState EXCEPT
                         !.last_service = a.last_service,
                         !.booking_state = a.booking_state,
                         !.selection_state.selected_service_key = a.selected_service_key]
            context == resolve_context(a.message_text, <<>>, state)
            res == process_booking_intent(a.message_text, state.booking_state,
                                          context.resolved_service_key, state,
                                          LocalDate(clock), a.cal)
            persisted == [state EXCEPT
                             !.last_service = Or(@, context.resolved_service_key),
                             !.booking_state = res.updated_state]
        IN ret' = [op |-> "continue_booking_flow", thread |-> Null, id |-> Null,
                   now |-> clock,
                   value |-> [state |-> state, service |-> context.resolved_service_key,
                              text |-> a.message_text, cal |-> a.cal,
                              result |-> res,
                              persisted |-> IF res.raised THEN state ELSE persisted]]
    /\ UNCHANGED <<store, clock, marks, bk, tasks, observed>>

SpecBookingTurn == InitBooking /\ [][ContinueBookingFlow]_vars

\* the arguments of one process_selection_intent call; the code builds a
\* service_selected state only with the key it resolved
SelectionArguments ==
    [message_text : SelectionTexts,
     current_state : {sel \in {SelectionState(status, pending_category, selected_service_key,
                                              last_service_mention) :
                                  status \in {"none", "awaiting_service_choice",
                                              "service_selected"},
                                  pending_category \in {Null, "laser", "brows"},
                                  selected_service_key \in {Null, SERVICE},
                                  last_service_mention \in {Null, T_LASER}} :
                        sel.status = "service_selected" => sel.selected_service_key # Null},
     language : {"en", "es"}]

\* one call of process_selection_intent, one call per run
CallProcessSelectionIntent ==
    /\ ret = NoRet
    /\ \E a \in SelectionArguments :
        ret' = [op |-> "process_selection_intent", thread |-> Null, id |-> Null, now |-> clock,
                value |-> <<a, process_selection_intent(a.message_text, a.current_state)>>]
    /\ UNCHANGED <<store, clock, marks, bk, tasks, observed>>

SpecSelectionStep == InitStore /\ [][CallProcessSelectionIntent]_vars

\* the states a caller may hand to set_state
BookingStates ==
    {BookingState(status, proposed_date, proposed_time, service_key, calendar_event_id, event_id) :
        status \in {"none", "collecting_time", "confirmed"},
        proposed_date \in {NoDt, <<1, 0, 0>>},
        proposed_time \in {NoDt, <<1, 14, 0>>},
        service_key \in {Null, SERVICE},
        calendar_event_id \in {Null, "evt_1"},
        event_id \in {Null, "evt_1", "evt_2"}}

SelectionStates ==
    {SelectionState(status, pending_category, selected_service_key, Null) :
        status \in {"none", "awaiting_service_choice", "service_selected"},
        pending_category \in {Null, "laser"},
        selected_service_key \in {Null, SERVICE}}

ConversationStates ==
    [last_intent : {Null, "pricing"},
     awaiting_booking : {FALSE},
     last_service : {Null, SERVICE},
     booking_state : BookingStates,
     language : {Null, "en"},
     last_seen_at : {NoTs, 1},
     last_outbound_at : {NoTs, 1},
     greeted_at : {NoTs, 1},
     selection_state : SelectionStates]

\* a caller stores a state on a fresh thread, one call per run
CallSetStateWith ==
    /\ ret = NoRet
    /\ \E state \in ConversationStates :
        /\ store' = set_state(store, "t1", state)
        /\ ret' = [op |-> "set_state", thread |-> "t1", id |-> Null, now |-> clock,
                   value |-> <<state>>]
    /\ UNCHANGED <<clock, marks, bk, tasks, observed>>

SpecRoundTrip == InitStore /\ [][CallSetStateWith]_vars

\* stores built with a small history_limit argument
InitHistory ==
    /\ store \in {[NewStore(k) EXCEPT !.history_limit = n] :
                    k \in StoreKinds, n \in 1..MaxHistoryLimit}
    /\ clock = 0
    /\ ret = NoRet
    /\ marks = NoMarks
    /\ bk = NoBooking
    /\ tasks = [k \in Tasks |-> IdleTask]
    /\ observed = NoObserved

CallAppendMessage ==
    \E t \in Threads, role \in {"user", "assistant"}, text \in {T_PRICE, T_BOOK} :
        LET entry == HistoryEntry(role, text, Null)
        IN /\ Len(marks.appended[t]) < MaxAppends
           /\ store' = append_message(store, t, entry)
           /\ marks' = [marks EXCEPT !.appended[t] = Append(@, entry)]
           /\ UNCHANGED <<clock, ret, bk, tasks, observed>>

SpecHistory == InitHistory /\ [][CallAppendMessage]_vars

(***************************************************************************)
(* Store calls of concurrent turns.  Each task makes the writing store     *)
(* calls of handle() on the thread of its message, one call after the      *)
(* other; on the JSON store a call takes the lock of its thread            *)
(* (_get_lock under self._lock_lock, then "with lock"), loads the thread   *)
(* file, writes the temp file and renames it, and the write or the rename  *)
(* may fail.  The memory store takes no lock.                              *)
(***************************************************************************)
MaxCalls == 3

StoreCalls == {"set_state", "append_message", "mark_greeted", "mark_message_received"}

\* the store after the call made by a task, run to its end
ApplyCall(s, h) ==
    CASE h.calls[1] = "set_state" ->
            set_state(s, h.thread_id, [get_state(s, h.thread_id) EXCEPT !.last_intent = h.text])
      [] h.calls[1] = "append_message" ->
            append_message(s, h.thread_id, HistoryEntry("user", h.text, h.id))
      [] h.calls[1] = "mark_greeted" ->
            mark_greeted(s, h.thread_id, h.now_ts)
      [] OTHER ->
            mark_message_received(s, h.thread_id, h.id, h.now_ts)

BeginCall(k) ==
    /\ tasks[k].pc = "idle"
    /\ observed.turns < MaxCalls
    /\ \E t \in Threads, call \in StoreCalls :
        tasks' = [tasks EXCEPT ![k] =
            [IdleTask EXCEPT !.thread_id = t, !.id = MsgOrder[k], !.text = T_PRICE,
                             !.now_ts = observed.turns, !.calls = <<call>>,
                             !.pc = IF store.kind = "memory" THEN "call" ELSE "get_lock"]]
    /\ observed' = [observed EXCEPT !.turns = @ + 1]
    /\ UNCHANGED <<store, clock, ret, marks, bk>>

\* memory_store.py: the call works on the dictionaries, keyed by thread id
MemoryCall(k) ==
    /\ tasks[k].pc = "call"
    /\ store' = ApplyCall(store, tasks[k])
    /\ tasks' = [tasks EXCEPT ![k].pc = "idle", ![k].exit = "returned"]
    /\ UNCHANGED <<clock, ret, marks, bk, observed>>

\* _get_lock, line 26: with self._lock_lock
EnterLockTable(k) ==
    /\ tasks[k].pc = "get_lock"
    /\ store.lock_lock = 0
    /\ store' = [store EXCEPT !.lock_lock = k]
    /\ tasks' = [tasks EXCEPT ![k].pc = "lookup"]
    /\ UNCHANGED <<clock, ret, marks, bk, observed>>

\* _get_lock, lines 27-29: the Lock is created when missing and returned
LeaveLockTable(k) ==
    /\ tasks[k].pc = "lookup"
    /\ store' = [store EXCEPT !.locks = @ \cup {_get_lock(store, tasks[k].thread_id)},
                              !.lock_lock = 0]
    /\ tasks' = [tasks EXCEPT ![k].pc = "acquire"]
    /\ UNCHANGED <<clock, ret, marks, bk, observed>>

\* "with self._get_lock(thread_id):" the Lock is taken when it is free
AcquireLock(k) ==
    /\ tasks[k].pc = "acquire"
    /\ LET lock == _get_lock(store, tasks[k].thread_id)
       IN /\ store.owner[lock] = 0
          /\ store' = [store EXCEPT !.owner[lock] = k]
    /\ tasks' = [tasks EXCEPT ![k].pc = "write_temp"]
    /\ UNCHANGED <<clock, ret, marks, bk, observed>>

\* _load_thread_data and _save_thread_data lines 74-75: the new record goes to the
\* temp file, to its end or, when the write raises, in part
WriteTemp(k) ==
    /\ tasks[k].pc = "write_temp"
    /\ \E complete \in BOOLEAN :
        LET t == tasks[k].thread_id
            data == ApplyCall(store, tasks[k]).files[t]
        IN /\ store' = _write_temp(store, t, data, complete)
           /\ tasks' = [tasks EXCEPT ![k].pc = IF complete THEN "rename" ELSE "cleanup"]
    /\ UNCHANGED <<clock, ret, marks, bk, observed>>

\* _save_thread_data line 77, then the lock is released and the call returns; or
\* the rename raises
Rename(k) ==
    /\ tasks[k].pc = "rename"
    /\ \E renamed \in BOOLEAN :
        LET t == tasks[k].thread_id
        IN IF renamed
           THEN /\ store' = [_replace(store, t) EXCEPT !.owner[_get_lock(store, t)] = 0]
                /\ tasks' = [tasks EXCEPT ![k].pc = "idle", ![k].exit = "returned"]
           ELSE /\ tasks' = [tasks EXCEPT ![k].pc = "cleanup"]
                /\ UNCHANGED store
    /\ UNCHANGED <<clock, ret, marks, bk, observed>>

\* _save_thread_data lines 78-86: the temp file is removed and the exception is
\* raised again; it leaves the with block, which releases the lock, and the call
Cleanup(k) ==
    /\ tasks[k].pc = "cleanup"
    /\ LET t == tasks[k].thread_id
       IN store' = [_unlink_temp(store, t) EXCEPT !.owner[_get_lock(store, t)] = 0]
    /\ tasks' = [tasks EXCEPT ![k].pc = "idle", ![k].failure = "store", ![k].exit = "raised"]
    /\ UNCHANGED <<clock, ret, marks, bk, observed>>

NextStoreCalls ==
    \E k \in Tasks :
        \/ BeginCall(k)
        \/ MemoryCall(k)
        \/ EnterLockTable(k)
        \/ LeaveLockTable(k)
        \/ AcquireLock(k)
        \/ WriteTemp(k)
        \/ Rename(k)
        \/ Cleanup(k)

SpecStoreCalls == InitHandler /\ [][NextStoreCalls]_vars

NextDebounce ==
    \/ Tick
    \/ CallHasProcessed
    \/ CallMarkProcessed
    \/ CallShouldProcessMessage
    \/ CallMarkMessageReceived

SpecDebounce == InitStore /\ [][NextDebounce]_vars

NextGreeting ==
    \/ Tick
    \/ CallShouldGreetToday
    \/ CallMarkGreeted
    \/ CallMarkOutbound
    \/ CallSetState

SpecGreeting == InitStore /\ [][NextGreeting]_vars

(***************************************************************************)
(* C2: should_process_message returns (true, null) when the thread has no  *)
(* recorded arrival, (false, id of the previously recorded message) when   *)
(* now minus the last recorded arrival is strictly less than the cooldown, *)
(* and (true, null) otherwise.                                             *)
(***************************************************************************)
C2_DebounceDecision ==
    ret.op = "should_process_message" =>
        LET rec == marks.received[ret.thread]
        IN IF rec = <<>> THEN ret.value = <<TRUE, Null>>
           ELSE IF ret.now - rec[2] < Cooldown THEN ret.value = <<FALSE, rec[1]>>
           ELSE ret.value = <<TRUE, Null>>

\* msg1 recorded at t=0, msg2 checked at t=1 is coalesced into msg1
C2_Witness ==
    /\ ret.op = "should_process_message"
    /\ ret.id = "m2"
    /\ ret.now = 1
    /\ marks.received[ret.thread] = <<"m1", 0>>
    /\ ret.value = <<FALSE, "m1">>

(***************************************************************************)
(* C4: once mark_processed(id) has been called, has_processed(id) is true  *)
(* in every later state, for every store implementation.                   *)
(***************************************************************************)
C4_MarkedIsProcessed ==
    \A id \in marks.processed : has_processed(store, id)

C10_Expected(k) ==
    /\ bk.actions = SubSeq(<<"ask_date", "suggest_slots", "confirm", "booked">>, 1, k)
    /\ bk.statuses = SubSeq(<<"collecting_date", "collecting_time", "confirming", "confirmed">>, 1, k)

C10_BookingProgression ==
    (bk.on_script /\ bk.turns >= 1) =>
        /\ C10_Expected(bk.turns)
        /\ bk.turns = Len(Script) => bk.state.calendar_event_id # Null

(***************************************************************************)
(* C11: when handle() receives a message whose id has already been         *)
(* processed, on whatever thread, it returns at the idempotency check: the *)
(* debounce check is not called, the store (conversation state, history,   *)
(* debounce record) is unchanged, and neither the classifier, the calendar *)
(* nor the send collaborator is called.                                    *)
(***************************************************************************)
ProcessedId(id) ==
    \E j \in Tasks : tasks[j].id = id /\ InSeq("mark_processed", tasks[j].calls)

C11_RedeliveryShortCircuit ==
    [][\A k \in Tasks :
          ( /\ tasks[k].pc = "idle"
            /\ tasks'[k].pc # "idle"
            /\ ProcessedId(tasks'[k].id) )
          => /\ tasks'[k].pc = "done"
             /\ tasks'[k].gate = "duplicate"
             /\ tasks'[k].calls = <<"has_processed">>
             /\ tasks'[k].intent = Null
             /\ tasks'[k].booking_result = Null
             /\ store' = store
             /\ observed' = observed]_vars

\* a message processed on one thread is delivered again on the other thread and ignored
C11_Witness ==
    \E k, j \in Tasks :
        /\ tasks[k].gate = "duplicate"
        /\ tasks[j].id = tasks[k].id
        /\ tasks[j].thread_id # tasks[k].thread_id
        /\ InSeq("mark_processed", tasks[j].calls)

(***************************************************************************)
(* C1: for any message id, over any number of deliveries of that id to     *)
(* handle(), sequential or concurrent, with either store, the platform     *)
(* send is invoked at most once.                                           *)
(***************************************************************************)
C1_AtMostOneSendPerMessage ==
    \A id \in MsgIds :
        Cardinality({i \in 1..Len(observed.sends) : observed.sends[i][1] = id}) <= 1

(***************************************************************************)
(* C3: every message that reaches the debounce stage of handle() has the   *)
(* debounce record overwritten with its id and arrival time, whether it is *)
(* then processed or coalesced, and this mark_message_received call comes  *)
(* before the should_process_message check.                                *)
(***************************************************************************)
C3_MarkedBeforeDebounceCheck ==
    \A k \in Tasks :
        LET c == tasks[k].calls
        IN \A i \in 1..Len(c) :
               c[i] = "should_process_message" =>
                   \E j \in 1..(i - 1) : c[j] = "mark_message_received"

(***************************************************************************)
(* C5: when two handle() calls for the same thread, with different message *)
(* ids, run concurrently with arrival times less than the cooldown apart,  *)
(* at most one of them passes the debounce gate.                           *)
(***************************************************************************)
C5_OnePassesTheGate ==
    \A k1, k2 \in Tasks :
        ( /\ k1 < k2
          /\ tasks[k2].overlapped
          /\ tasks[k1].thread_id = tasks[k2].thread_id
          /\ tasks[k1].id # tasks[k2].id
          /\ tasks[k1].now_ts # NoTs
          /\ tasks[k2].now_ts # NoTs
          /\ tasks[k2].now_ts - tasks[k1].now_ts < Cooldown
          /\ tasks[k1].now_ts - tasks[k2].now_ts < Cooldown )
        => ~(tasks[k1].gate = "passed" /\ tasks[k2].gate = "passed")

(***************************************************************************)
(* C6: when two handle() calls for the same thread interleave, a booking   *)
(* state written by one handler is never overwritten by the other handler  *)
(* writing back a snapshot it read earlier: once both have finished, the   *)
(* persisted booking state is the one a booking step wrote last.           *)
(***************************************************************************)
C6_NoLostBookingState ==
    \A t \in Threads :
        ( /\ observed.booking_written[t] # <<>>
          /\ \A k \in Tasks : tasks[k].thread_id = t => tasks[k].pc = "done" )
        => LET persisted == get_state(store, t).booking_state
               written == observed.booking_written[t][1]
           IN /\ persisted.status = written.status
              /\ persisted.service_key = written.service_key
              /\ persisted.proposed_date = written.proposed_date
              /\ persisted.proposed_time = written.proposed_time

(***************************************************************************)
(* C7: when two handle() calls for the same thread run concurrently on the *)
(* same local calendar day, at most one of them obtains                    *)
(* should_greet_today = true and composes its reply with the greeting.     *)
(***************************************************************************)
C7_OneConcurrentGreeting ==
    \A k1, k2 \in Tasks :
        ( /\ k1 < k2
          /\ tasks[k2].overlapped
          /\ tasks[k1].thread_id = tasks[k2].thread_id
          /\ tasks[k1].greeted_reply
          /\ tasks[k2].greeted_reply )
        => LocalDate(tasks[k1].now_ts) # LocalDate(tasks[k2].now_ts)

(***************************************************************************)
(* C9: over non-overlapping handle() calls for one thread within one local *)
(* calendar day, at most one turn composes its reply with the greeting,    *)
(* with the JSON store as well as the memory store.                        *)
(***************************************************************************)
C9_OneGreetingPerDayAcrossTurns ==
    \A k1, k2 \in Tasks :
        ( /\ k1 < k2
          /\ ~tasks[k2].overlapped
          /\ tasks[k1].thread_id = tasks[k2].thread_id
          /\ tasks[k1].greeted_reply
          /\ tasks[k2].greeted_reply )
        => LocalDate(tasks[k1].now_ts) # LocalDate(tasks[k2].now_ts)

(***************************************************************************)
(* C16: when the intent of a normal-flow turn, after the overrides, is     *)
(* outside the allowed set, is out_of_scope, or has no matching template,  *)
(* the turn sends nothing, appends exactly one system history entry (the   *)
(* handoff reason) and appends no assistant entry.                         *)
(***************************************************************************)
Count(seq, x) == Cardinality({i \in 1..Len(seq) : seq[i] = x})

HandoffDue(h) ==
    /\ "classifier" \in h.invoked
    /\ \/ h.final_intent \notin ALLOWED_INTENTS
       \/ h.final_intent = "out_of_scope"
       \/ h.template = "missing"

C16_HandoffDecision ==
    \A k \in Tasks :
        (tasks[k].pc = "done" /\ HandoffDue(tasks[k])) =>
            /\ tasks[k].sent = 0
            /\ Count(tasks[k].appended, "system") = 1
            /\ Count(tasks[k].appended, "assistant") = 0

(***************************************************************************)
(* C17: in every processed turn whose loaded booking status is not none    *)
(* and whose message has no cancellation keyword, the turn belongs to the  *)
(* booking machine alone: the classifier and the selection machine are not *)
(* called, the booking state of the result is persisted, and the turn      *)
(* returns after the booking reply.                                        *)
(***************************************************************************)
SameBooking(a, b) ==
    /\ a.status = b.status
    /\ a.service_key = b.service_key
    /\ a.proposed_date = b.proposed_date
    /\ a.proposed_time = b.proposed_time
    /\ a.calendar_event_id = b.calendar_event_id

InBookingTurn(h) ==
    /\ h.loaded_status \notin {Null, "none"}
    /\ ~has_cancel_keyword(h.text)

C17_ExclusiveBookingRouting ==
    \A k \in Tasks :
        (tasks[k].pc = "done" /\ InBookingTurn(tasks[k])) =>
            /\ tasks[k].invoked = {"booking"}
            /\ tasks[k].exit = "booking_reply"
            /\ observed.booking_written[tasks[k].thread_id] # <<>>
            /\ SameBooking(get_state(store, tasks[k].thread_id).booking_state,
                           observed.booking_written[tasks[k].thread_id][1])

C19_ConfirmedPersists ==
    [][LET before == get_state(store, "t1").booking_state
           after == get_state(store', "t1").booking_state
       IN (before.status = "confirmed" /\ ~has_cancel_keyword(tasks'[1].text)) =>
              /\ after.status = "confirmed"
              /\ after.calendar_event_id = before.calendar_event_id]_vars

(***************************************************************************)
(* C20: when a processed message has a cancellation keyword while the      *)
(* booking status of the thread is not none, the booking state is replaced *)
(* by the initial none state and persisted before any call of the booking  *)
(* machine in that turn, so the machine never runs on the state from       *)
(* before the cancellation, and the turn goes on through the normal flow.  *)
(***************************************************************************)
Cancelling(h) ==
    /\ h.loaded_status \notin {Null, "none"}
    /\ has_cancel_keyword(h.text)
    /\ h.pc \notin {"set_last_seen", "resolve", "set_language", "route"}

C20_CancellationResets ==
    LET h == tasks[1]
    IN Cancelling(h) =>
           /\ \A i \in 1..Len(h.machine_inputs) : h.machine_inputs[i] = "none"
           /\ h.machine_inputs = <<>> =>
                  SameBooking(get_state(store, h.thread_id).booking_state, DefaultBookingState)
           /\ h.pc = "done" => "classifier" \in h.invoked /\ h.exit # "booking_reply"

\* a cancellation during a booking, after which the classifier's booking intent
\* started the machine again from none
C20_Witness ==
    /\ Cancelling(tasks[1])
    /\ tasks[1].pc = "done"
    /\ tasks[1].loaded_status = "collecting_date"
    /\ tasks[1].machine_inputs = <<"none">>

(***************************************************************************)
(* C12: the intake gate fails closed.  When the store raises or a thread   *)
(* record is unreadable while the idempotency and debounce checks run, the *)
(* turn does not pass the gate: nothing is written and nothing is sent.    *)
(***************************************************************************)
GateFault(h) ==
    \/ h.unreadable
    \/ h.failure = "store" /\ h.gate = "none"

C12_GateFailsClosed ==
    \A k \in Tasks :
        GateFault(tasks[k]) =>
            /\ tasks[k].gate # "passed"
            /\ tasks[k].appended = <<>>
            /\ tasks[k].sent = 0

(***************************************************************************)
(* C13: whatever call of the classifier, the knowledge base, the calendar, *)
(* the platform or the store raises in a turn, handle() returns normally   *)
(* and the turn sends nothing after the failure.                           *)
(***************************************************************************)
CollaboratorFailures == {"store", "kb", "classifier", "calendar", "send", "send_403"}

C13_FailureIsolation ==
    \A k \in Tasks :
        tasks[k].failure \in CollaboratorFailures =>
            /\ tasks[k].pc # "crashed"
            /\ ~tasks[k].sent_after_failure

(***************************************************************************)
(* C14: when the platform answers a send with HTTP 403, the turn appends   *)
(* exactly one system history entry (the failed send), appends no          *)
(* assistant entry, records no outbound timestamp, and handle() returns    *)
(* normally.                                                               *)
(***************************************************************************)
C14_ForbiddenSendRecorded ==
    \A k \in Tasks :
        (tasks[k].pc = "done" /\ tasks[k].failure = "send_403") =>
            /\ tasks[k].exit = "failed_send"
            /\ Count(tasks[k].appended, "system") = 1
            /\ Count(tasks[k].appended, "assistant") = 0
            /\ ~tasks[k].outbound
            /\ tasks[k].sent = 0

\* a 403 on the reply of the normal flow, recorded in the history of the thread
C14_Witness ==
    \E k \in Tasks :
        /\ tasks[k].pc = "done"
        /\ tasks[k].failure = "send_403"
        /\ tasks[k].exit = "failed_send"
        /\ tasks[k].final_intent = "pricing"
        /\ LET history == get_history(store, tasks[k].thread_id)
           IN history # <<>> /\ history[Len(history)].text = "FAILED_SEND"

(***************************************************************************)
(* C15: whatever the arguments of compose() (a canonical service message   *)
(* and a yes/no block included), the text it returns carries at most one   *)
(* pricing occurrence, and none when explicit_price_intent is false.       *)
(***************************************************************************)
C15_PricingGated ==
    ret.op = "compose" =>
        LET pricing_count == _count_pricing_occurrences(ret.value.text)
        IN /\ pricing_count <= 1
           /\ ~ret.args.explicit_price_intent => pricing_count = 0

(***************************************************************************)
(* C21: with the auto-reply toggle off, no turn on any path (booking       *)
(* reply, duration reply, normal reply) calls the platform send, appends   *)
(* an assistant history entry or marks an outbound timestamp.              *)
(***************************************************************************)
LastOutbound(s, thread_id) ==
    IF s.kind = "memory" THEN s.last_outbound_ts[thread_id]
    ELSE get_state(s, thread_id).last_outbound_at

C21_ToggleOffSendsNothing ==
    ~observed.auto_reply =>
        /\ observed.sends = <<>>
        /\ \A k \in Tasks :
              /\ tasks[k].sent = 0
              /\ Count(tasks[k].appended, "assistant") = 0
              /\ ~tasks[k].outbound
        /\ \A t \in Threads :
              /\ LastOutbound(store, t) = NoTs
              /\ \A i \in 1..Len(get_history(store, t)) :
                    get_history(store, t)[i].role # "assistant"

\* with the toggle off, a turn of the booking flow has ended where its reply would
\* have gone out, after a duration question on the same thread
C21_Witness ==
    /\ ~observed.auto_reply
    /\ tasks[1].pc = "done"
    /\ tasks[1].exit = "booking_reply"
    /\ get_state(store, "t1").last_intent = "booking"
    /\ \E i \in 1..Len(get_history(store, "t1")) :
          get_history(store, "t1")[i].text = T_DURATION

(***************************************************************************)
(* C22: in the JSON store, get_state after set_state(t, s) returns, for    *)
(* every state s, the same last_intent, last_service, language and         *)
(* timestamps, the same booking status, service key, proposed date and     *)
(* time and calendar event id, and the same selection status, category and *)
(* selected service key.                                                   *)
(***************************************************************************)
SameStateApartFromEventId(a, b) ==
    /\ a.last_intent = b.last_intent
    /\ a.last_service = b.last_service
    /\ a.language = b.language
    /\ a.last_seen_at = b.last_seen_at
    /\ a.last_outbound_at = b.last_outbound_at
    /\ a.greeted_at = b.greeted_at
    /\ a.booking_state.status = b.booking_state.status
    /\ a.booking_state.service_key = b.booking_state.service_key
    /\ a.booking_state.proposed_date = b.booking_state.proposed_date
    /\ a.booking_state.proposed_time = b.booking_state.proposed_time
    /\ a.selection_state.status = b.selection_state.status
    /\ a.selection_state.pending_category = b.selection_state.pending_category
    /\ a.selection_state.selected_service_key = b.selection_state.selected_service_key

MostRecent(appended, limit) ==
    LET n == IF Len(appended) < limit THEN Len(appended) ELSE limit
    IN [i \in 1..n |-> appended[Len(appended) - n + i]]

C23_HistoryCapped ==
    \A t \in Threads :
        /\ Len(get_history(store, t)) <= store.history_limit
        /\ get_history(store, t) = MostRecent(marks.appended[t], store.history_limit)

C23_Witness ==
    \E t \in Threads :
        /\ store.history_limit = 2
        /\ Len(marks.appended[t]) = MaxAppends
        /\ marks.appended[t][MaxAppends - 1] # marks.appended[t][MaxAppends]
        /\ get_history(store, t) = <<marks.appended[t][MaxAppends - 1], marks.appended[t][MaxAppends]>>

(***************************************************************************)
(* One process_booking_intent call: its arguments, its result and the      *)
(* service the code resolves for it.                                       *)
(***************************************************************************)
BookingCalled == ret.op = "process_booking_intent"
Args == ret.value[1]
Result == ret.value[2]
ServiceResolvable ==
    \/ Args.service # Null
    \/ Args.current_state.service_key # Null
    \/ Args.last_service # Null
    \/ Args.selected_service_key # Null

(***************************************************************************)
(* C24: from status none or collecting_service, process_booking_intent     *)
(* moves to collecting_date with action ask_date exactly when a service    *)
(* can be resolved from its argument, the booking state, last_service or   *)
(* the selected service; otherwise it moves to or stays in                 *)
(* collecting_service with action ask_service.  The calendar is not called *)
(* in either case.                                                         *)
(***************************************************************************)
C24_ServiceGate ==
    (BookingCalled /\ Args.current_state.status \in {"none", "collecting_service"}) =>
        /\ ~Result.raised
        /\ Result.calls = <<>>
        /\ ServiceResolvable =>
              /\ Result.updated_state.status = "collecting_date"
              /\ Result.updated_state.service_key = SERVICE
              /\ Result.action = "ask_date"
        /\ ~ServiceResolvable =>
              /\ Result.updated_state.status = "collecting_service"
              /\ Result.action = "ask_service"

C24_Witness ==
    /\ BookingCalled
    /\ Args.current_state.status = "collecting_service"
    /\ Args.service = Null
    /\ Args.current_state.service_key = Null
    /\ Args.last_service = Null
    /\ Args.selected_service_key = SERVICE
    /\ Result.updated_state.status = "collecting_date"
    /\ Result.action = "ask_date"

(***************************************************************************)
(* C25: from collecting_date with a parseable date, zero available slots   *)
(* leave the state in collecting_date with action ask_date; one or more    *)
(* slots, exactly one included, move to collecting_time with the parsed    *)
(* date and the service key kept, action suggest_slots and at most two     *)
(* proposed slots.                                                         *)
(***************************************************************************)
DateStep ==
    /\ BookingCalled
    /\ Args.current_state.status = "collecting_date"
    /\ parse_date_preference(Args.message_text, LocalDate(ret.now)) # <<>>

TimeStep ==
    /\ BookingCalled
    /\ Args.current_state.status = "collecting_time"
    /\ Args.current_state.proposed_date # NoDt
    /\ parse_time_preference(Args.message_text) # <<>>

RequestedSlot ==
    <<Args.current_state.proposed_date[1],
      parse_time_preference(Args.message_text)[1],
      parse_time_preference(Args.message_text)[2]>>

C26_TimeStep ==
    TimeStep =>
        /\ ~Result.raised
        /\ Len(Result.calls) >= 1
        /\ Result.calls[1] = <<"check_availability", RequestedSlot,
                               AddMinutes(RequestedSlot, DefaultDuration + BufferMinutes)>>
        /\ Args.cal.available =>
              /\ Result.updated_state.status = "confirming"
              /\ Result.updated_state.proposed_time = RequestedSlot
              /\ Result.updated_state.proposed_date = Args.current_state.proposed_date
              /\ Result.proposed_slots = <<RequestedSlot>>
              /\ Result.action = "confirm"
        /\ ~Args.cal.available =>
              /\ Result.updated_state = Args.current_state
              /\ Result.action = (IF Args.cal.slots > 0 THEN "suggest_slots" ELSE "ask_time")

C26_Witness ==
    /\ TimeStep
    /\ Args.cal.available
    /\ Result.updated_state.status = "confirming"
    /\ Result.updated_state.proposed_time = <<1, 14, 0>>
    /\ Result.calls = << <<"check_availability", <<1, 14, 0>>, <<1, 15, 15>>>> >>

(***************************************************************************)
(* C27: from confirming with a proposed time, an affirming message makes   *)
(* exactly one create_event call; when it succeeds the state becomes       *)
(* confirmed with the returned event id and action booked; when it raises  *)
(* no exception leaves process_booking_intent, the action is unavailable   *)
(* and the state stays confirming, unchanged.  A message that does not     *)
(* affirm makes no calendar call and returns the unchanged state with      *)
(* action confirm.                                                         *)
(***************************************************************************)
ConfirmStep ==
    /\ BookingCalled
    /\ Args.current_state.status = "confirming"
    /\ Args.current_state.proposed_time # NoDt

C27_ConfirmStep ==
    ConfirmStep =>
        /\ ~Result.raised
        /\ _is_confirmation(Args.message_text) =>
              /\ Len(Result.calls) = 1
              /\ Result.calls[1][1] = "create_event"
              /\ Result.calls[1][2] = Args.current_state.proposed_time
              /\ Args.cal.event_id # "raise" =>
                    /\ Result.updated_state.status = "confirmed"
                    /\ Result.updated_state.calendar_event_id = Args.cal.event_id
                    /\ Result.updated_state.proposed_time = Args.current_state.proposed_time
                    /\ Result.action = "booked"
              /\ Args.cal.event_id = "raise" =>
                    /\ Result.updated_state = Args.current_state
                    /\ Result.action = "unavailable"
        /\ ~_is_confirmation(Args.message_text) =>
              /\ Result.calls = <<>>
              /\ Result.updated_state = Args.current_state
              /\ Result.action = "confirm"

C27_Witness ==
    /\ ConfirmStep
    /\ Args.message_text = T_YES
    /\ Args.cal.event_id = "raise"
    /\ Len(Result.calls) = 1
    /\ Result.action = "unavailable"
    /\ Result.updated_state.status = "confirming"

(***************************************************************************)
(* C28: process_selection_intent returns a service_selected state          *)
(* unchanged; otherwise a message resolving to a registry key gives        *)
(* service_selected with that key; otherwise a detected category gives     *)
(* awaiting_service_choice with that pending category, with                *)
(* needs_clarification true exactly when the category question is          *)
(* ambiguous; otherwise the state comes back unchanged with                *)
(* needs_clarification false.                                              *)
(***************************************************************************)
SelectionCalled == ret.op = "process_selection_intent"

CategoryTurnDone ==
    /\ observed.turns = 1
    /\ tasks[1].pc = "done"
    /\ tasks[1].text = T_LASER
    /\ tasks[1].gate = "passed"
    /\ is_ambiguous_category_question(tasks[1].text) # Null
    /\ resolve_service_to_registry_key(tasks[1].text) = Null

C29_SelectionEntered ==
    CategoryTurnDone =>
        get_state(store, "t1").selection_state.status = "awaiting_service_choice"

(***************************************************************************)
(* C30: in every turn and on every reply path, when the platform send is   *)
(* performed an assistant history entry is appended and the outbound       *)
(* timestamp of the thread is marked, and that timestamp is still the      *)
(* stored value when the turn ends.                                        *)
(***************************************************************************)
SentTurnDone(k) == tasks[k].pc = "done" /\ tasks[k].sent > 0

C30_SentReplyRecorded ==
    \A k \in Tasks :
        SentTurnDone(k) =>
            /\ Count(tasks[k].appended, "assistant") = tasks[k].sent
            /\ tasks[k].outbound
            /\ LastOutbound(store, tasks[k].thread_id) = tasks[k].now_ts

(***************************************************************************)
(* C31: in every turn and on every reply path, when reply generation       *)
(* signals should_handoff nothing is sent and exactly one system history   *)
(* entry carrying the handoff reason is appended.                          *)
(***************************************************************************)
C31_ComposerHandoffRecorded ==
    \A k \in Tasks :
        (tasks[k].pc = "done" /\ tasks[k].should_handoff) =>
            /\ tasks[k].sent = 0
            /\ Count(tasks[k].appended, "system") = 1

(***************************************************************************)
(* C32: for language en and for language es, when compose() is called with *)
(* greeting_applicable true and the remaining blocks are valid, the        *)
(* returned text starts with the greeting of that language and no error is *)
(* reported; when greeting_applicable is false the text holds no greeting. *)
(***************************************************************************)
ComposeCalled == ret.op = "compose"

\* the same call without the greeting reports no error
RemainingBlocksValid ==
    compose(ret.kb, [ret.args EXCEPT !.greeting_applicable = FALSE], ret.valid).error = Null

IsGreeting(block) == block.name \in {"greeting_en", "greeting_es"}

C32_GreetingIncluded ==
    ComposeCalled =>
        /\ (ret.args.greeting_applicable /\ RemainingBlocksValid) =>
              /\ ret.value.error = Null
              /\ ret.value.text # <<>>
              /\ ret.value.text[1] = _greeting(ret.args.language)
        /\ ~ret.args.greeting_applicable =>
              \A i \in 1..Len(ret.value.text) : ~IsGreeting(ret.value.text[i])

(***************************************************************************)
(* C33: in every turn the greeting check-and-mark is performed at most     *)
(* once, and the reply of the turn is composed with greeting_applicable    *)
(* true if and only if that turn marked the thread as greeted.             *)
(***************************************************************************)
C33_GreetedIffMarked ==
    \A k \in Tasks :
        (tasks[k].pc = "done" /\ tasks[k].composed_with # "none") =>
            /\ tasks[k].greet_checks <= 1
            /\ tasks[k].greet_marks <= 1
            /\ (tasks[k].composed_with = "greeting") <=> (tasks[k].greet_marks > 0)

(***************************************************************************)
(* C34: when the debounce check answers proceed=false, handle() returns    *)
(* without appending to the history, without changing the conversation     *)
(* state or the processed ids and without calling the classifier, the      *)
(* calendar or the send collaborator; and in a sequential run two          *)
(* processed messages of one thread are at least the cooldown apart.       *)
(***************************************************************************)
Coalesced(h) == h.gate = "coalesced"

CoalescedTurnIdle ==
    \A k \in Tasks :
        Coalesced(tasks[k]) =>
            /\ tasks[k].pc = "done"
            /\ tasks[k].calls = <<"has_processed", "should_process_message">>
            /\ tasks[k].appended = <<>>
            /\ tasks[k].invoked = {}
            /\ tasks[k].machine_inputs = <<>>
            /\ tasks[k].sent = 0
            /\ ~tasks[k].outbound

ProcessedApart ==
    \A j, k \in Tasks :
        (/\ j # k
         /\ tasks[j].gate = "passed" /\ tasks[k].gate = "passed"
         /\ tasks[j].thread_id = tasks[k].thread_id
         /\ ~tasks[j].overlapped /\ ~tasks[k].overlapped) =>
            \/ tasks[k].now_ts - tasks[j].now_ts >= Cooldown
            \/ tasks[j].now_ts - tasks[k].now_ts >= Cooldown

CoalescingStep ==
    \A k \in Tasks :
        (~Coalesced(tasks[k]) /\ Coalesced(tasks'[k])) =>
            /\ store' = store
            /\ observed' = observed

C34_CoalescedNoEffect ==
    /\ [](CoalescedTurnIdle /\ ProcessedApart)
    /\ [][CoalescingStep]_vars

C34_Witness ==
    \E k \in Tasks :
        /\ Coalesced(tasks[k])
        /\ ~tasks[k].overlapped
        /\ tasks[k].pc = "done"
        /\ \E j \in Tasks : /\ tasks[j].gate = "passed"
                            /\ tasks[j].thread_id = tasks[k].thread_id
                            /\ tasks[j].sent > 0

(***************************************************************************)
(* C35: in every turn that passes the gate the message id is recorded as   *)
(* processed, in both stores, before the classifier, the calendar or the   *)
(* send collaborator is called; when the turn fails later, a redelivery of *)
(* the same id is ignored and produces no reply.                           *)
(***************************************************************************)
Recorded(h) ==
    /\ InSeq("mark_message_received", h.calls)
    /\ InSeq("mark_processed", h.calls)

Running(h) == h.pc \notin {"idle", "done", "crashed"}

RecordedBeforeCollaborators ==
    \A k \in Tasks :
        (tasks[k].invoked # {} \/ tasks[k].sent > 0) =>
            /\ Recorded(tasks[k])
            /\ Running(tasks[k]) => has_processed(store, tasks[k].id)

\* deliveries come one after the other: task 2 is the later one
RedeliveryIgnored ==
    (/\ tasks[1].id = tasks[2].id
     /\ tasks[1].gate = "passed"
     /\ Recorded(tasks[1])
     /\ tasks[2].pc # "idle") =>
        /\ tasks[2].gate # "passed"
        /\ tasks[2].sent = 0
        /\ tasks[2].invoked = {}

C35_ProcessedBeforeReplied == RecordedBeforeCollaborators /\ RedeliveryIgnored

(***************************************************************************)
(* C36: every booking state returned by process_booking_intent and         *)
(* persisted by handle() is well formed: confirmed comes with a calendar   *)
(* event id, confirming with a proposed time, collecting_time with a       *)
(* proposed date, and from collecting_date on the service key recorded     *)
(* when the flow was entered is kept.                                      *)
(***************************************************************************)
BookingTurnDone == ret.op = "continue_booking_flow"
InFlow(b) == b.status \in {"collecting_date", "collecting_time", "confirming", "confirmed"}

WellFormed(b) ==
    /\ b.status = "confirmed" => b.calendar_event_id # Null
    /\ b.status = "confirming" => b.proposed_time # NoDt
    /\ b.status = "collecting_time" => b.proposed_date # NoDt
    /\ InFlow(b) => b.service_key # Null

ServiceKeyKept(before, after) ==
    (InFlow(before) /\ InFlow(after)) => after.service_key = before.service_key

FieldsWellFormed ==
    BookingTurnDone => WellFormed(ret.value.persisted.booking_state)

C36_BookingStateWellFormed ==
    BookingTurnDone =>
        /\ WellFormed(ret.value.persisted.booking_state)
        /\ ServiceKeyKept(ret.value.state.booking_state, ret.value.persisted.booking_state)

(***************************************************************************)
(* C37: in a sequential run create_event is called only from status        *)
(* confirming with a proposed time and on an affirming message, every      *)
(* create_event that returned an id is followed by the persisted status    *)
(* confirmed, so the events created are as many as the persisted changes   *)
(* to confirmed, and an affirmation repeated after confirmed creates no    *)
(* second event.                                                           *)
(***************************************************************************)
EventsCreated == {i \in 1..Len(observed.created) : observed.created[i].created}

CreatedOnlyFromConfirming ==
    \A i \in 1..Len(observed.created) :
        /\ observed.created[i].status = "confirming"
        /\ observed.created[i].proposed_time # NoDt
        /\ _is_confirmation(observed.created[i].text)

CreatedThenConfirmed ==
    /\ Cardinality(EventsCreated) = observed.confirmations
    /\ (tasks[1].pc = "booking_reply" /\ tasks[1].booking_result = "booked") =>
           get_state(store, "t1").booking_state.status = "confirmed"

AffirmationRepeated(h) ==
    /\ h.pc = "done"
    /\ h.loaded_status = "confirmed"
    /\ _is_confirmation(h.text)

NoSecondEvent ==
    (\E k \in Tasks : AffirmationRepeated(tasks[k])) => Cardinality(EventsCreated) = 1

C37_NoDoubleBooking == CreatedOnlyFromConfirming /\ CreatedThenConfirmed /\ NoSecondEvent

C37_Witness ==
    /\ AffirmationRepeated(tasks[1])
    /\ Cardinality(EventsCreated) = 1
    /\ observed.confirmations = 1

(***************************************************************************)
(* C38: last_service is written once: when the persisted last_service of a *)
(* thread is not null, no step of a handle() turn changes it, whether the  *)
(* turn names another service, cancels a booking or completes a selection. *)
(***************************************************************************)
LastServiceKept(t) ==
    get_state(store, t).last_service # Null =>
        get_state(store', t).last_service = get_state(store, t).last_service

C38_LastServiceWriteOnce == [][\A t \in Threads : LastServiceKept(t)]_vars

(***************************************************************************)
(* C39: threads are independent.  A step made for a message of one thread  *)
(* leaves the conversation state, the history, the debounce record and the *)
(* greeting marker of every other thread as they were, and a call that     *)
(* waits for the Lock of its thread waits for a call on the same thread;   *)
(* the lock of the lock table is held only while a Lock is looked up,      *)
(* never while a thread file is read or written.                           *)
(***************************************************************************)
ThreadRecord(s, t) ==
    IF s.kind = "memory"
    THEN <<s.states[t], s.threads[t], s.last_received_message_at[t],
           s.pending_message_id[t], s.last_greeted_at[t], s.last_outbound_ts[t]>>
    ELSE <<s.files[t], s.temp[t]>>

OtherThreadsUnchanged ==
    \A k \in Tasks :
        tasks'[k] # tasks[k] =>
            \A t \in Threads \ {tasks'[k].thread_id} :
                ThreadRecord(store', t) = ThreadRecord(store, t)

WaitsForOwnThread ==
    \A k \in Tasks :
        LET lock == _get_lock(store, tasks[k].thread_id)
        IN (tasks[k].pc = "acquire" /\ store.owner[lock] # 0) =>
               tasks[store.owner[lock]].thread_id = tasks[k].thread_id

TableLockOnlyForLookup ==
    store.lock_lock # 0 => tasks[store.lock_lock].pc = "lookup"

C39_ThreadsIndependent ==
    /\ [](WaitsForOwnThread /\ TableLockOnlyForLookup)
    /\ [][OtherThreadsUnchanged]_vars

C39_Witness ==
    /\ store.kind = "json"
    /\ tasks[1].thread_id = "t1" /\ tasks[1].pc = "rename"
    /\ tasks[2].thread_id = "t2" /\ tasks[2].pc = "rename"
    /\ store.files["t2"].exists

(***************************************************************************)
(* C40: a thread record is replaced atomically.  When saving fails, while  *)
(* the temp file is written or at the rename, the record persisted before  *)
(* is left as it was, the temp file is removed, the failure is raised to   *)
(* the caller, and at no moment does a thread file hold a record written   *)
(* in part.                                                                *)
(***************************************************************************)
Saving(h) == h.pc \in {"write_temp", "rename", "cleanup"}

FailedSaveKeepsRecord ==
    \A k \in Tasks :
        (Saving(tasks[k]) /\ tasks'[k] # tasks[k]
                          /\ ~(tasks[k].pc = "rename" /\ tasks'[k].pc = "idle")) =>
            /\ store'.files = store.files
            /\ tasks[k].pc = "cleanup" =>
                  /\ tasks'[k].exit = "raised"
                  /\ ~store'.temp[tasks[k].thread_id].exists

NoPartialRecord == \A t \in Threads : ~store.files[t].corrupt

C40_AtomicReplacement == []NoPartialRecord /\ [][FailedSaveKeepsRecord]_vars

C40_Witness ==
    \E k \in Tasks :
        /\ tasks[k].exit = "raised"
        /\ store.files[tasks[k].thread_id].exists
        /\ ~store.temp[tasks[k].thread_id].exists

====
